---- MODULE Spec2Model ----
(***************************************************************************)
(* db-explorer-mcp: the connection manager (database.ts), the tool         *)
(* handlers of the MCP server, and the explain-plan normalizer             *)
(* (explain.ts), as state machines.                                        *)
(*                                                                         *)
(* A tool call is an async function: the code between two awaits runs      *)
(* atomically, and at every await any other call may run.  Each action     *)
(* below is one such atomic segment.                                       *)
(***************************************************************************)
EXTENDS Integers, Sequences, FiniteSets, TLC

(***************************************************************************)
(* Text.  Strings are TLA+ strings; Len, \o and SubSeq work on them.       *)
(***************************************************************************)
Char(s, i) == SubSeq(s, i, i)

StartsWith(s, p) == Len(s) >= Len(p) /\ SubSeq(s, 1, Len(p)) = p

EndsWith(s, p) == Len(s) >= Len(p) /\ SubSeq(s, Len(s) - Len(p) + 1, Len(s)) = p

\* position of the first occurrence of sub in s at or after from; 0 when none
IndexFrom(s, sub, from) ==
  LET cand == {i \in from..(Len(s) - Len(sub) + 1) : SubSeq(s, i, i + Len(sub) - 1) = sub}
  IN IF cand = {} THEN 0 ELSE CHOOSE i \in cand : \A j \in cand : i <= j

Contains(s, sub) == IndexFrom(s, sub, 1) # 0

\* the characters String.prototype.trim removes (those the inputs use)
WhiteSpace == {" ", "\t", "\n"}

\* String.prototype.trim
Trim(s) ==
  LET keep == {i \in 1..Len(s) : Char(s, i) \notin WhiteSpace}
  IN IF keep = {} THEN ""
     ELSE SubSeq(s, CHOOSE i \in keep : \A j \in keep : i <= j,
                    CHOOSE i \in keep : \A j \in keep : i >= j)

LowerCase == "abcdefghijklmnopqrstuvwxyz"
UpperCase == "ABCDEFGHIJKLMNOPQRSTUVWXYZ"

UpperChar(c) ==
  LET k == IndexFrom(LowerCase, c, 1) IN IF k = 0 THEN c ELSE Char(UpperCase, k)

\* String.prototype.toUpperCase
RECURSIVE ToUpperCase(_)
ToUpperCase(s) == IF s = "" THEN "" ELSE UpperChar(Char(s, 1)) \o ToUpperCase(SubSeq(s, 2, Len(s)))

(***************************************************************************)
(* database.ts: connection strings                                         *)
(***************************************************************************)
UnrecognizedPrefix == "Unrecognized connection string format: \""
UnrecognizedSuffix == "\"\nExpected: postgres://..., mysql://..., sqlite:///path, or a .db/.sqlite file path"

\* new URL(trimmed), lines 18 and 30: throws where the host, the text from
\* "://" to the next "/", has a space
UrlParses(trimmed) ==
  LET from == IndexFrom(trimmed, "://", 1) + 3
      slash == IndexFrom(trimmed, "/", from)
      host == SubSeq(trimmed, from, IF slash = 0 THEN Len(trimmed) ELSE slash - 1)
  IN ~Contains(host, " ")

InvalidUrlMessage == "Invalid URL"

\* a parse that takes every other text for the path of a SQLite file
parseConnectionStringAnyPath(str) ==
  LET trimmed == Trim(str) IN
  IF StartsWith(trimmed, "postgres://") \/ StartsWith(trimmed, "postgresql://")
    THEN IF UrlParses(trimmed) THEN [ok |-> TRUE, client |-> "pg", message |-> ""]
         ELSE [ok |-> FALSE, client |-> "null", message |-> InvalidUrlMessage]
  ELSE IF StartsWith(trimmed, "mysql://")
    THEN IF UrlParses(trimmed) THEN [ok |-> TRUE, client |-> "mysql2", message |-> ""]
         ELSE [ok |-> FALSE, client |-> "null", message |-> InvalidUrlMessage]
  ELSE [ok |-> TRUE, client |-> "better-sqlite3", message |-> ""]

\* parseConnectionString: the client it selects, or the error it throws.
\* (The ssl/sslmode rewriting changes the connection options, not the client.)
parseConnectionString(str) ==
  LET trimmed == Trim(str) IN
  IF StartsWith(trimmed, "postgres://") \/ StartsWith(trimmed, "postgresql://")
    THEN IF UrlParses(trimmed) THEN [ok |-> TRUE, client |-> "pg", message |-> ""]
         ELSE [ok |-> FALSE, client |-> "null", message |-> InvalidUrlMessage]
  ELSE IF StartsWith(trimmed, "mysql://")
    THEN IF UrlParses(trimmed) THEN [ok |-> TRUE, client |-> "mysql2", message |-> ""]
         ELSE [ok |-> FALSE, client |-> "null", message |-> InvalidUrlMessage]
  ELSE IF StartsWith(trimmed, "sqlite:")
    THEN [ok |-> TRUE, client |-> "better-sqlite3", message |-> ""]
  ELSE IF \/ EndsWith(trimmed, ".db") \/ EndsWith(trimmed, ".sqlite")
          \/ EndsWith(trimmed, ".sqlite3") \/ trimmed = ":memory:"
    THEN [ok |-> TRUE, client |-> "better-sqlite3", message |-> ""]
  ELSE [ok |-> FALSE, client |-> "null",
        message |-> UnrecognizedPrefix \o trimmed \o UnrecognizedSuffix]

RedactionMarker == "***"

\* the match of /:\/\/([^:]+):([^@]+)@/ that starts at position i of s:
\* <<position of the ':' after group 1, position of the '@' after group 2>>,
\* or <<>> when the pattern does not match there.  [^:]+ ends at the first
\* ':' and [^@]+ at the first '@', so there is one candidate per start.
RedactMatchAt(s, i) ==
  IF i + 2 > Len(s) \/ SubSeq(s, i, i + 2) # "://" THEN <<>>
  ELSE LET c == IndexFrom(s, ":", i + 3) IN
       IF c < i + 4 THEN <<>>
       ELSE LET a == IndexFrom(s, "@", c + 1) IN
            IF a < c + 2 THEN <<>> ELSE <<c, a>>

\* redactConnectionString: String.prototype.replace with a regex without the
\* g flag rewrites the leftmost match only.
redactConnectionString(str) ==
  LET starts == {i \in 1..Len(str) : RedactMatchAt(str, i) # <<>>} IN
  IF starts = {} THEN str
  ELSE LET i == CHOOSE k \in starts : \A j \in starts : k <= j
           m == RedactMatchAt(str, i)
       IN SubSeq(str, 1, i - 1) \o "://" \o SubSeq(str, i + 3, m[1] - 1)
            \o ":" \o RedactionMarker \o "@" \o SubSeq(str, m[2] + 1, Len(str))

dialectName(client) ==
  IF client = "pg" THEN "PostgreSQL" ELSE IF client = "mysql2" THEN "MySQL" ELSE "SQLite"

ConnectedMessage(client) == "Connected to " \o dialectName(client) \o " database (read-only mode)"

LivenessStatement == "SELECT 1"

\* the statement connect sends to force the session into read-only mode
ReadOnlyStatement(client) ==
  IF client = "pg" THEN "SET default_transaction_read_only = ON"
  ELSE IF client = "mysql2" THEN "SET SESSION TRANSACTION READ ONLY"
  ELSE "PRAGMA query_only = ON"

NotConnectedMessage ==
  "Not connected to any database. Use the connect tool with a connection string, "
    \o "or set the DB_CONNECTION_STRING environment variable."

NoDialectMessage == "Not connected to any database."

\* TypeError of knexInstance.raw(...) when knexInstance is null
NullHandleMessage == "Cannot read properties of null (reading 'raw')"

\* whatever message the driver reports for a failed statement
DriverMessage == "backend error"

(***************************************************************************)
(* The server: statement validation of query, explain_query and chart      *)
(***************************************************************************)
ValidationMessage == "Only SELECT and WITH (CTE) queries are allowed"

\* a validation that looks for the keyword anywhere in the statement
IsReadStatementAnywhere(sql) ==
  Contains(ToUpperCase(sql), "SELECT") \/ Contains(ToUpperCase(sql), "WITH")

\* a validation that neither trims nor folds case
IsReadStatementVerbatim(sql) ==
  StartsWith(sql, "SELECT") \/ StartsWith(sql, "WITH")

\* sql.trim().toUpperCase() starts with SELECT or WITH
IsReadStatement(sql) ==
  LET trimmed == ToUpperCase(Trim(sql)) IN
  StartsWith(trimmed, "SELECT") \/ StartsWith(trimmed, "WITH")

MAX_QUERY_ROWS == 1000

\* dialectHint: appended to the error text of a failed query or chart
\* (the source writes a dash where these strings have " - ")
dialectHint(dialect) ==
  IF dialect = "mysql2"
    THEN " (MySQL - use DATE_SUB(), CURDATE(), IFNULL, backtick-quoted identifiers)"
  ELSE IF dialect = "pg"
    THEN " (PostgreSQL - use CURRENT_DATE - INTERVAL, COALESCE, double-quoted identifiers)"
  ELSE IF dialect = "better-sqlite3"
    THEN " (SQLite - use date(), julianday(), IFNULL, no GROUP BY alias references)"
  ELSE ""

AutoConnectLog(cs) ==
  "  Auto-connecting from DB_CONNECTION_STRING: " \o redactConnectionString(cs)

(***************************************************************************)
(* explain.ts: the explain-plan normalizer                                 *)
(***************************************************************************)
\* null, for a row estimate that is absent
Null == -1

Includes(seq, x) == \E i \in 1..Len(seq) : seq[i] = x

\* Math.round of a / b for a >= 0, b > 0
RoundDiv(a, b) == (2 * a + b) \div (2 * b)

formatRowCount(n) ==
  IF n >= 1000000 THEN "~" \o ToString(RoundDiv(n, 1000000)) \o "M"
  ELSE IF n >= 1000 THEN "~" \o ToString(RoundDiv(n, 1000)) \o "K"
  ELSE "~" \o ToString(n)

\* the per-scan warning (the source writes a dash before "consider")
ScanWarning(name, rows) ==
  "Sequential scan on '" \o name \o "'"
    \o (IF rows > 0 THEN " (" \o formatRowCount(rows) \o " rows)" ELSE "")
    \o " - consider filtering on an indexed column"

NoIndexWarning == "No indexes used - check describe_table for available indexes"

NoPlanDetails == "No plan details available"

\* the ExplainResult each dialect pass starts from
EmptyResult ==
  [summary |-> "", indexesUsed |-> <<>>, sequentialScans |-> <<>>,
   estimatedRows |-> Null, warnings |-> <<>>]

\* A Postgres plan node: nodeType, relationName and indexName ("" when the
\* node has none), planRows (Null when absent), plans (the child nodes).
PgNode(nodeType, relationName, indexName, planRows, plans) ==
  [nodeType |-> nodeType, relationName |-> relationName, indexName |-> indexName,
   planRows |-> planRows, plans |-> plans]

\* a walk that stops at the node it is given
walkPgPlanShallow(node, result) ==
  IF node.nodeType = "Seq Scan" /\ node.relationName # ""
    THEN [result EXCEPT
            !.sequentialScans = Append(@, node.relationName),
            !.warnings = Append(@, ScanWarning(node.relationName,
                             IF node.planRows = Null THEN 0 ELSE node.planRows))]
    ELSE result

RECURSIVE walkPgPlan(_, _), walkPgPlans(_, _)

\* walkPgPlan, lines 27..49
walkPgPlan(node, result) ==
  LET scan == IF node.nodeType = "Seq Scan" /\ node.relationName # ""
                THEN [result EXCEPT
                        !.sequentialScans = Append(@, node.relationName),
                        !.warnings = Append(@, ScanWarning(node.relationName,
                                         IF node.planRows = Null THEN 0 ELSE node.planRows))]
                ELSE result
      index == IF node.indexName # "" /\ ~Includes(scan.indexesUsed, node.indexName)
                 THEN [scan EXCEPT !.indexesUsed = Append(@, node.indexName)]
                 ELSE scan
      rows == IF /\ node.planRows # Null
                 /\ (index.estimatedRows = Null \/ node.planRows > index.estimatedRows)
                THEN [index EXCEPT !.estimatedRows = node.planRows]
                ELSE index
  IN walkPgPlans(node.plans, rows)

\* the loop over node.Plans, lines 44..48
walkPgPlans(nodes, result) ==
  IF nodes = <<>> THEN result
  ELSE walkPgPlans(Tail(nodes), walkPgPlan(Head(nodes), result))

\* explainPg, lines 57..71; plan is <<>> when the rows hold no plan, and
\* <<node>> otherwise
explainPg(plan) ==
  IF plan = <<>> THEN EmptyResult
  ELSE walkPgPlan(plan[1], [EmptyResult EXCEPT !.estimatedRows = plan[1].planRows])

\* A JSON value of the MySQL plan: an object (keys and their values, in
\* order), an array (its items in vals), a string, a number or null.
JObject(keys, vals) == [type |-> "object", keys |-> keys, vals |-> vals, str |-> "", num |-> 0]
JArray(vals) == [type |-> "array", keys |-> <<>>, vals |-> vals, str |-> "", num |-> 0]
JString(str) == [type |-> "string", keys |-> <<>>, vals |-> <<>>, str |-> str, num |-> 0]
JNumber(num) == [type |-> "number", keys |-> <<>>, vals |-> <<>>, str |-> "", num |-> num]
JNull == [type |-> "null", keys |-> <<>>, vals |-> <<>>, str |-> "", num |-> 0]

\* key in record
HasKey(obj, key) == obj.type = "object" /\ Includes(obj.keys, key)

\* record[key], JNull when the key is absent
Field(obj, key) ==
  IF HasKey(obj, key)
    THEN obj.vals[CHOOSE i \in 1..Len(obj.keys) : obj.keys[i] = key]
    ELSE JNull

\* a value that is truthy
Truthy(v) ==
  \/ v.type \in {"object", "array"}
  \/ v.type = "string" /\ v.str # ""
  \/ v.type = "number" /\ v.num # 0

RECURSIVE walkMysqlTables(_, _), walkMysqlValues(_, _)

\* walkMysqlTables, lines 93..128
walkMysqlTables(obj, result) ==
  IF obj.type \notin {"object", "array"} THEN result
  ELSE
    LET isTable == HasKey(obj, "access_type") /\ HasKey(obj, "table_name")
        name == Field(obj, "table_name")
        key == Field(obj, "key")
        examined == Field(obj, "rows_examined_per_scan")
        scan == IF isTable /\ Field(obj, "access_type") = JString("ALL") /\ Truthy(name)
                  THEN [result EXCEPT
                          !.sequentialScans = Append(@, name.str),
                          !.warnings = Append(@, ScanWarning(name.str,
                                           IF examined.type = "number" THEN examined.num ELSE 0))]
                  ELSE result
        index == IF isTable /\ Truthy(key) /\ ~Includes(scan.indexesUsed, key.str)
                   THEN [scan EXCEPT !.indexesUsed = Append(@, key.str)]
                   ELSE scan
        rows == IF /\ isTable
                   /\ examined.type = "number"
                   /\ (index.estimatedRows = Null \/ examined.num > index.estimatedRows)
                  THEN [index EXCEPT !.estimatedRows = examined.num]
                  ELSE index
    IN walkMysqlValues(obj.vals, rows)

\* the loop over Object.values(record), lines 119..127: the items of an
\* array value one by one, an object value itself
walkMysqlValues(values, result) ==
  IF values = <<>> THEN result
  ELSE LET value == Head(values) IN
       walkMysqlValues(Tail(values),
         IF value.type = "array" THEN walkMysqlValues(value.vals, result)
         ELSE IF value.type = "object" THEN walkMysqlTables(value, result)
         ELSE result)

\* the value JSON.parse returns for the text of a MySQL plan; the text is
\* kept as the value it denotes, or as Unparsable when it is not JSON
Unparsable == JString("<not JSON>")

\* explainMysql, lines 132..146: raw is JNull when the rows hold no plan.
\* JSON.parse throws on a text that is not JSON.
explainMysql(raw) ==
  IF ~Truthy(raw) THEN [ok |-> TRUE, result |-> EmptyResult, message |-> ""]
  ELSE IF raw = Unparsable
    THEN [ok |-> FALSE, result |-> EmptyResult, message |-> "Unexpected token < in JSON at position 0"]
  ELSE [ok |-> TRUE, result |-> walkMysqlTables(raw, EmptyResult), message |-> ""]

\* position after the longest run of whitespace that starts at i
RECURSIVE SkipSpace(_, _)
SkipSpace(s, i) ==
  IF i <= Len(s) /\ Char(s, i) \in WhiteSpace THEN SkipSpace(s, i + 1) ELSE i

\* position after the longest run of non-whitespace that starts at i
RECURSIVE SkipWord(_, _)
SkipWord(s, i) ==
  IF i <= Len(s) /\ Char(s, i) \notin WhiteSpace THEN SkipWord(s, i + 1) ELSE i

LiteralAt(s, i, lit) == i + Len(lit) - 1 <= Len(s) /\ SubSeq(s, i, i + Len(lit) - 1) = lit

\* /INDEX\s+(\S+)/ matched at position i: the name captured, "" for no match
IndexNameAt(s, i) ==
  IF ~LiteralAt(s, i, "INDEX") THEN ""
  ELSE LET k == SkipSpace(s, i + 5) IN
       IF k = i + 5 THEN "" ELSE SubSeq(s, k, SkipWord(s, k) - 1)

\* /USING\s+(?:COVERING\s+)?INDEX\s+(\S+)/ matched at position i
UsingIndexAt(s, i) ==
  IF ~LiteralAt(s, i, "USING") THEN ""
  ELSE LET j == SkipSpace(s, i + 5) IN
       IF j = i + 5 THEN ""
       ELSE LET c == SkipSpace(s, j + 8)
                covering == IF LiteralAt(s, j, "COVERING") /\ c > j + 8
                              THEN IndexNameAt(s, c) ELSE ""
            IN IF covering # "" THEN covering ELSE IndexNameAt(s, j)

\* the leftmost of the positions at which a pattern matches, 0 for none
Leftmost(starts) ==
  IF starts = {} THEN 0 ELSE CHOOSE i \in starts : \A j \in starts : i <= j

\* detail.match(/USING\s+(?:COVERING\s+)?INDEX\s+(\S+)/): the name captured
\* by the first match, "" for no match
UsingIndexMatch(s) ==
  LET i == Leftmost({k \in 1..Len(s) : UsingIndexAt(s, k) # ""}) IN
  IF i = 0 THEN "" ELSE UsingIndexAt(s, i)

\* /^SCAN\s+(\S+)/: the table captured, "" for no match
ScanMatch(detail) ==
  IF ~LiteralAt(detail, 1, "SCAN") THEN ""
  ELSE LET k == SkipSpace(detail, 5) IN
       IF k = 5 THEN "" ELSE SubSeq(detail, k, SkipWord(detail, k) - 1)

\* /SEARCH\s+\S+\s+USING\s+(?:COVERING\s+)?INDEX\s+(\S+)/ matched at position i
SearchAt(s, i) ==
  IF ~LiteralAt(s, i, "SEARCH") THEN ""
  ELSE LET j == SkipSpace(s, i + 6)
           k == SkipWord(s, j)
           l == SkipSpace(s, k)
       IN IF j = i + 6 \/ k = j \/ l = k THEN "" ELSE UsingIndexAt(s, l)

\* detail.match(/SEARCH\s+\S+\s+USING\s+(?:COVERING\s+)?INDEX\s+(\S+)/): the
\* name captured by the first match, "" for no match
SearchMatch(s) ==
  LET i == Leftmost({k \in 1..Len(s) : SearchAt(s, k) # ""}) IN
  IF i = 0 THEN "" ELSE SearchAt(s, i)

\* a plan row without a detail text
Undefined == "<undefined>"

\* a pass over one plan line that records the index of a SEARCH unseen
explainSqliteLineRepeating(detail, result) ==
  LET table == ScanMatch(detail)
      usingIndex == UsingIndexMatch(detail)
      scan == IF table = "" THEN result
              ELSE IF usingIndex # ""
                THEN IF Includes(result.indexesUsed, usingIndex) THEN result
                     ELSE [result EXCEPT !.indexesUsed = Append(@, usingIndex)]
              ELSE [result EXCEPT !.sequentialScans = Append(@, table),
                                  !.warnings = Append(@, ScanWarning(table, 0))]
      search == SearchMatch(detail)
  IN IF search # "" THEN [scan EXCEPT !.indexesUsed = Append(@, search)] ELSE scan

\* a pass over one plan line that takes every SCAN for a sequential scan
explainSqliteLineAllScans(detail, result) ==
  LET table == ScanMatch(detail)
      usingIndex == UsingIndexMatch(detail)
      index == IF table # "" /\ usingIndex # "" /\ ~Includes(result.indexesUsed, usingIndex)
                 THEN [result EXCEPT !.indexesUsed = Append(@, usingIndex)]
                 ELSE result
      scan == IF table = "" THEN index
              ELSE [index EXCEPT !.sequentialScans = Append(@, table),
                                 !.warnings = Append(@, ScanWarning(table, 0))]
      search == SearchMatch(detail)
  IN IF search # "" /\ ~Includes(scan.indexesUsed, search)
       THEN [scan EXCEPT !.indexesUsed = Append(@, search)]
       ELSE scan

\* explainSqlite, lines 161..186: one plan line
explainSqliteLine(detail, result) ==
  LET table == ScanMatch(detail)
      usingIndex == UsingIndexMatch(detail)
      scan == IF table = "" THEN result
              ELSE IF usingIndex # ""
                THEN IF Includes(result.indexesUsed, usingIndex) THEN result
                     ELSE [result EXCEPT !.indexesUsed = Append(@, usingIndex)]
              ELSE [result EXCEPT !.sequentialScans = Append(@, table),
                                  !.warnings = Append(@, ScanWarning(table, 0))]
      search == SearchMatch(detail)
  IN IF search # "" /\ ~Includes(scan.indexesUsed, search)
       THEN [scan EXCEPT !.indexesUsed = Append(@, search)]
       ELSE scan

RECURSIVE explainSqliteLines(_, _)
explainSqliteLines(details, result) ==
  IF details = <<>> THEN result
  ELSE explainSqliteLines(Tail(details), explainSqliteLine(Head(details), result))

\* explainSqlite, lines 152..188; detail.match throws on a row without detail
explainSqlite(details) ==
  IF Includes(details, Undefined)
    THEN [ok |-> FALSE, result |-> EmptyResult,
          message |-> "Cannot read properties of undefined (reading 'match')"]
    ELSE [ok |-> TRUE, result |-> explainSqliteLines(details, EmptyResult), message |-> ""]

\* a general warning that every result with a sequential scan gets
FinishWarningAllScans(result) ==
  IF Len(result.sequentialScans) > 0
    THEN [result EXCEPT !.warnings = Append(@, NoIndexWarning)]
    ELSE result

\* a summary that counts the warnings for the scans
FinishCountingWarnings(result) ==
  LET warned == IF Len(result.indexesUsed) = 0 /\ Len(result.sequentialScans) > 0
                  THEN [result EXCEPT !.warnings = Append(@, NoIndexWarning)]
                  ELSE result
      parts == (IF warned.estimatedRows # Null
                  THEN <<formatRowCount(warned.estimatedRows) \o " rows estimated">> ELSE <<>>)
            \o (IF Len(warned.indexesUsed) > 0
                  THEN <<"uses " \o ToString(Len(warned.indexesUsed)) \o " index(es)">> ELSE <<>>)
            \o (IF Len(warned.warnings) > 0
                  THEN <<ToString(Len(warned.warnings)) \o " sequential scan(s)">> ELSE <<>>)
  IN [warned EXCEPT !.summary =
        IF parts = <<>> THEN NoPlanDetails
        ELSE IF Len(parts) = 1 THEN parts[1]
        ELSE IF Len(parts) = 2 THEN parts[1] \o ", " \o parts[2]
        ELSE parts[1] \o ", " \o parts[2] \o ", " \o parts[3]]

\* a general warning placed before the warnings of the scans
FinishWarningFirst(result) ==
  LET warned == IF Len(result.indexesUsed) = 0 /\ Len(result.sequentialScans) > 0
                  THEN [result EXCEPT !.warnings = <<NoIndexWarning>> \o @]
                  ELSE result
      parts == (IF warned.estimatedRows # Null
                  THEN <<formatRowCount(warned.estimatedRows) \o " rows estimated">> ELSE <<>>)
            \o (IF Len(warned.indexesUsed) > 0
                  THEN <<"uses " \o ToString(Len(warned.indexesUsed)) \o " index(es)">> ELSE <<>>)
            \o (IF Len(warned.sequentialScans) > 0
                  THEN <<ToString(Len(warned.sequentialScans)) \o " sequential scan(s)">> ELSE <<>>)
  IN [warned EXCEPT !.summary =
        IF parts = <<>> THEN NoPlanDetails
        ELSE IF Len(parts) = 1 THEN parts[1]
        ELSE IF Len(parts) = 2 THEN parts[1] \o ", " \o parts[2]
        ELSE parts[1] \o ", " \o parts[2] \o ", " \o parts[3]]

\* explainQuery, lines 201..219: the general warning and the summary
Finish(result) ==
  LET warned == IF Len(result.indexesUsed) = 0 /\ Len(result.sequentialScans) > 0
                  THEN [result EXCEPT !.warnings = Append(@, NoIndexWarning)]
                  ELSE result
      parts == (IF warned.estimatedRows # Null
                  THEN <<formatRowCount(warned.estimatedRows) \o " rows estimated">> ELSE <<>>)
            \o (IF Len(warned.indexesUsed) > 0
                  THEN <<"uses " \o ToString(Len(warned.indexesUsed)) \o " index(es)">> ELSE <<>>)
            \o (IF Len(warned.sequentialScans) > 0
                  THEN <<ToString(Len(warned.sequentialScans)) \o " sequential scan(s)">> ELSE <<>>)
  IN [warned EXCEPT !.summary =
        IF parts = <<>> THEN NoPlanDetails
        ELSE IF Len(parts) = 1 THEN parts[1]
        ELSE IF Len(parts) = 2 THEN parts[1] \o ", " \o parts[2]
        ELSE parts[1] \o ", " \o parts[2] \o ", " \o parts[3]]

\* explainQuery, lines 193..220, for the rows the backend returned: plan is
\* [dialect, tree, raw, details], of which the dialect's pass reads its own
explainQuery(dialect, plan) ==
  LET pass == IF dialect = "pg"
                THEN [ok |-> TRUE, result |-> explainPg(plan.tree), message |-> ""]
              ELSE IF dialect = "mysql2" THEN explainMysql(plan.raw)
              ELSE explainSqlite(plan.details)
  IN IF pass.ok THEN [pass EXCEPT !.result = Finish(pass.result)] ELSE pass

RECURSIVE JoinLines(_)
JoinLines(lines) ==
  IF lines = <<>> THEN ""
  ELSE IF Len(lines) = 1 THEN lines[1]
  ELSE JoinLines(SubSeq(lines, 1, Len(lines) \div 2)) \o "\n"
         \o JoinLines(SubSeq(lines, Len(lines) \div 2 + 1, Len(lines)))

RECURSIVE JoinComma(_)
JoinComma(names) ==
  IF names = <<>> THEN ""
  ELSE IF Len(names) = 1 THEN names[1]
  ELSE names[1] \o ", " \o JoinComma(Tail(names))

\* formatExplainResult, lines 222..246
formatExplainResult(result) ==
  JoinLines(
    <<"Query Plan Analysis">>
    \o (IF result.estimatedRows # Null
          THEN <<"  Estimated rows: " \o formatRowCount(result.estimatedRows)>> ELSE <<>>)
    \o <<"  Indexes used: " \o (IF Len(result.indexesUsed) > 0
                                  THEN JoinComma(result.indexesUsed) ELSE "(none)")>>
    \o <<"  Sequential scans: " \o (IF Len(result.sequentialScans) > 0
                                      THEN JoinComma(result.sequentialScans) ELSE "none")>>
    \o (IF Len(result.warnings) > 0
          THEN <<"", "  Warnings:">> \o [i \in 1..Len(result.warnings) |-> "    - " \o result.warnings[i]]
          ELSE <<>>))

(***************************************************************************)
(* introspection.ts: the catalog of the connected database and the texts   *)
(* listTables, describeTable and getFullSchema make of it                  *)
(***************************************************************************)
\* the most tables getFullSchema describes
MAX_SCHEMA_TABLES == 100

Min(a, b) == IF a < b THEN a ELSE b

\* Number(text) for the decimal text of an integer
RECURSIVE DigitsValue(_, _)
DigitsValue(text, acc) ==
  IF text = "" THEN acc
  ELSE DigitsValue(SubSeq(text, 2, Len(text)),
                   10 * acc + (CHOOSE d \in 0..9 : ToString(d) = Char(text, 1)))

NumberOf(text) ==
  IF StartsWith(text, "-") THEN 0 - DigitsValue(SubSeq(text, 2, Len(text)), 0)
  ELSE DigitsValue(text, 0)

\* n.toLocaleString() for n >= 0: groups of three digits, separated by commas
RECURSIVE toLocaleString(_)
toLocaleString(n) ==
  IF n < 1000 THEN ToString(n)
  ELSE toLocaleString(n \div 1000) \o ","
         \o (IF n % 1000 < 10 THEN "00" ELSE IF n % 1000 < 100 THEN "0" ELSE "")
         \o ToString(n % 1000)

\* s.padEnd(n)
RECURSIVE padEnd(_, _)
padEnd(s, n) == IF Len(s) >= n THEN s ELSE padEnd(s \o " ", n)

\* c.repeat(n)
RECURSIVE repeat(_, _)
repeat(c, n) == IF n <= 0 THEN "" ELSE c \o repeat(c, n - 1)

\* A table of the catalog: its name; the row estimate the catalog keeps
\* (pg_class.reltuples, TABLE_ROWS) as <<n>>, or <<>> when it has none; the
\* number of rows it holds; its columns, foreign keys and indexes.
\* A column: name, declared type ("" for none), whether NOT NULL is declared,
\* the default ("" for none), the position in the primary key (0 for none).
\* A foreign key: column, referencedTable, referencedColumn.
\* An index: name, columns, unique, primary, the partial predicate ("" for
\* none), the access method, the cardinality (Null for none).
NoCatalog == [tables |-> <<>>]

NoTablesMessage == "No tables found in the database."

\* the rows of the listing statement of Postgres, lines 46..55: COALESCE
\* puts 0 for an absent estimate, and the driver gives a bigint as its text
ListingRowsPg(catalog) ==
  [i \in 1..Len(catalog.tables) |->
     [name |-> catalog.tables[i].name,
      estimated_rows |-> ToString(IF catalog.tables[i].estimate = <<>> THEN 0
                                  ELSE catalog.tables[i].estimate[1])]]

\* a listing that takes the estimate of the catalog as it is
listTablesPgUnclamped(rows) ==
  [i \in 1..Len(rows) |->
     [name |-> rows[i].name, estimatedRows |-> NumberOf(rows[i].estimated_rows)]]

\* listTablesPg, lines 56..59
listTablesPg(rows) ==
  [i \in 1..Len(rows) |->
     [name |-> rows[i].name,
      estimatedRows |-> IF NumberOf(rows[i].estimated_rows) < 0 THEN 0
                        ELSE NumberOf(rows[i].estimated_rows)]]

\* the rows of the listing statement of MySQL, lines 63..70: TABLE_ROWS,
\* which is NULL or a count
ListingRowsMysql(catalog) ==
  [i \in 1..Len(catalog.tables) |->
     [name |-> catalog.tables[i].name,
      estimated_rows |-> IF catalog.tables[i].estimate = <<>> THEN Null
                         ELSE catalog.tables[i].estimate[1]]]

\* listTablesMysql, lines 71..74: Number(r.estimated_rows || 0)
listTablesMysql(rows) ==
  [i \in 1..Len(rows) |->
     [name |-> rows[i].name,
      estimatedRows |-> IF rows[i].estimated_rows \in {Null, 0} THEN 0
                        ELSE rows[i].estimated_rows]]

\* the rows of the statements of SQLite, lines 78..83: the names, and for
\* each table the one row of its COUNT(*)
ListingRowsSqlite(catalog) ==
  [i \in 1..Len(catalog.tables) |->
     [name |-> catalog.tables[i].name, count |-> <<[cnt |-> catalog.tables[i].rows]>>]]

\* listTablesSqlite, lines 81..89: count[0]?.cnt ?? 0
listTablesSqlite(rows) ==
  [i \in 1..Len(rows) |->
     [name |-> rows[i].name,
      estimatedRows |-> IF rows[i].count = <<>> THEN 0 ELSE rows[i].count[1].cnt]]

\* the TableSummary list of the dialect, lines 96..98 and 361..363
TableSummaries(dialect, catalog) ==
  IF dialect = "pg" THEN listTablesPg(ListingRowsPg(catalog))
  ELSE IF dialect = "mysql2" THEN listTablesMysql(ListingRowsMysql(catalog))
  ELSE listTablesSqlite(ListingRowsSqlite(catalog))

\* Math.max(...items.map(t => t.name.length), least)
MaxNameLength(items, least) ==
  LET lengths == {least} \cup {Len(items[i].name) : i \in 1..Len(items)}
  IN CHOOSE m \in lengths : \A n \in lengths : n <= m

\* a listing that draws the header also for a database without tables
listTablesHeaderOnly(dialect, catalog) ==
  JoinLines(<<"Database: " \o dialectName(dialect), "", padEnd("Table", 5) \o "  Est. Rows",
              repeat("-", 5) \o "  " \o repeat("-", 10)>>)

\* listTables, lines 92..112 (the source draws the separator with a box
\* character where this text has "-")
listTables(dialect, catalog) ==
  LET tables == TableSummaries(dialect, catalog)
      maxNameLen == MaxNameLength(tables, 5)
  IN IF Len(tables) = 0 THEN NoTablesMessage
     ELSE JoinLines(
            <<"Database: " \o dialectName(dialect), "",
              padEnd("Table", maxNameLen) \o "  Est. Rows",
              repeat("-", maxNameLen) \o "  " \o repeat("-", 10)>>
            \o [i \in 1..Len(tables) |->
                  padEnd(tables[i].name, maxNameLen) \o "  "
                    \o toLocaleString(tables[i].estimatedRows)])

\* the table of this name in the catalog: <<table>>, or <<>> for none
TableNamed(tables, name) ==
  LET at == {i \in 1..Len(tables) : tables[i].name = name}
  IN IF at = {} THEN <<>> ELSE <<tables[CHOOSE i \in at : \A j \in at : i <= j]>>

\* text.split(",")
RECURSIVE Split(_)
Split(text) ==
  LET at == IndexFrom(text, ",", 1) IN
  IF at = 0 THEN <<text>>
  ELSE <<SubSeq(text, 1, at - 1)>> \o Split(SubSeq(text, at + 1, Len(text)))

\* GROUP_CONCAT(COLUMN_NAME ORDER BY SEQ_IN_INDEX)
RECURSIVE GroupConcat(_)
GroupConcat(names) ==
  IF names = <<>> THEN ""
  ELSE IF Len(names) = 1 THEN names[1]
  ELSE names[1] \o "," \o GroupConcat(Tail(names))

\* the rows of the foreign-key statements of Postgres and MySQL, lines
\* 137..146 and 211..219
ForeignKeyRows(table) ==
  [i \in 1..Len(table.foreignKeys) |->
     [column |-> table.foreignKeys[i].column,
      referenced_table |-> table.foreignKeys[i].referencedTable,
      referenced_column |-> table.foreignKeys[i].referencedColumn]]

\* a list that holds a row without names where the statement returned none
foreignKeysOrBlank(rows) ==
  IF rows = <<>> THEN <<[column |-> "", referencedTable |-> "", referencedColumn |-> ""]>>
  ELSE [i \in 1..Len(rows) |->
          [column |-> rows[i].column, referencedTable |-> rows[i].referenced_table,
           referencedColumn |-> rows[i].referenced_column]]

\* fks.map and fkRows.map, lines 178..182 and 243..247
foreignKeys(rows) ==
  [i \in 1..Len(rows) |->
     [column |-> rows[i].column, referencedTable |-> rows[i].referenced_table,
      referencedColumn |-> rows[i].referenced_column]]

\* PRAGMA foreign_key_list, line 272
ForeignKeyList(table) ==
  [i \in 1..Len(table.foreignKeys) |->
     [from |-> table.foreignKeys[i].column, table |-> table.foreignKeys[i].referencedTable,
      to |-> table.foreignKeys[i].referencedColumn]]

\* pragmaFks.map, lines 273..277
foreignKeysSqlite(rows) ==
  [i \in 1..Len(rows) |->
     [column |-> rows[i].from, referencedTable |-> rows[i].table,
      referencedColumn |-> rows[i].to]]

\* describeTablePg, lines 116..193: the catalog reports a column of the
\* primary key as not nullable
describeTablePg(tableName, table) ==
  [name |-> tableName,
   columns |-> [i \in 1..Len(table.columns) |->
      LET c == table.columns[i] IN
      [name |-> c.name, type |-> c.type, nullable |-> ~(c.notNull \/ c.pk > 0),
       defaultValue |-> c.default, isPrimaryKey |-> c.pk > 0]],
   foreignKeys |-> foreignKeys(ForeignKeyRows(table)),
   indexes |-> [i \in 1..Len(table.indexes) |->
      LET x == table.indexes[i] IN
      [name |-> x.name, columns |-> x.columns, unique |-> x.unique, type |-> x.method,
       isPrimary |-> x.primary,
       cardinality |-> IF x.cardinality = Null THEN Null ELSE NumberOf(ToString(x.cardinality)),
       partial |-> x.partial]]]

\* describeTableMysql, lines 195..258
describeTableMysql(tableName, table) ==
  [name |-> tableName,
   columns |-> [i \in 1..Len(table.columns) |->
      LET c == table.columns[i] IN
      [name |-> c.name, type |-> c.type, nullable |-> ~(c.notNull \/ c.pk > 0),
       defaultValue |-> c.default, isPrimaryKey |-> c.pk > 0]],
   foreignKeys |-> foreignKeys(ForeignKeyRows(table)),
   indexes |-> [i \in 1..Len(table.indexes) |->
      LET x == table.indexes[i] IN
      [name |-> x.name, columns |-> Split(GroupConcat(x.columns)), unique |-> x.unique,
       type |-> x.method, isPrimary |-> x.name = "PRIMARY",
       cardinality |-> x.cardinality, partial |-> ""]]]

\* PRAGMA table_info, line 262: notnull is 1 for a column declared NOT NULL
\* and 0 otherwise, also for a column of the primary key; pk is the position
\* of the column in the primary key
TableInfo(table) ==
  [i \in 1..Len(table.columns) |->
     LET c == table.columns[i] IN
     [name |-> c.name, type |-> c.type, notnull |-> IF c.notNull THEN 1 ELSE 0,
      dflt_value |-> c.default, pk |-> c.pk]]

\* PRAGMA index_list, line 280
IndexList(table) ==
  [i \in 1..Len(table.indexes) |->
     LET x == table.indexes[i] IN
     [name |-> x.name, unique |-> IF x.unique THEN 1 ELSE 0,
      origin |-> IF x.primary THEN "pk" ELSE IF x.unique THEN "u" ELSE "c",
      partial |-> IF x.partial = "" THEN 0 ELSE 1]]

\* the sql of an index in sqlite_master, line 286
IndexSql(tableName, x) ==
  "CREATE INDEX " \o x.name \o " ON " \o tableName \o "(" \o GroupConcat(x.columns) \o ")"
    \o (IF x.partial = "" THEN "" ELSE " WHERE " \o x.partial)

\* sql.match(/WHERE\s+(.+)$/i), lines 287..288: the text captured, "" for
\* no match
PartialExpr(sql) ==
  LET at == IndexFrom(ToUpperCase(sql), "WHERE", 1)
      from == IF at = 0 THEN 0 ELSE SkipSpace(sql, at + 5)
  IN IF at = 0 \/ from = at + 5 \/ from > Len(sql) THEN ""
     ELSE SubSeq(sql, from, Len(sql))

\* describeTableSqlite, lines 263..269
describeSqliteColumns(rows) ==
  [i \in 1..Len(rows) |->
     [name |-> rows[i].name, type |-> IF rows[i].type = "" THEN "TEXT" ELSE rows[i].type,
      nullable |-> rows[i].notnull = 0,
      defaultValue |-> rows[i].dflt_value, isPrimaryKey |-> rows[i].pk = 1]]

\* describeTableSqlite, lines 260..302
describeTableSqlite(tableName, table) ==
  [name |-> tableName,
   columns |-> describeSqliteColumns(TableInfo(table)),
   foreignKeys |-> foreignKeysSqlite(ForeignKeyList(table)),
   indexes |-> [i \in 1..Len(table.indexes) |->
      LET idx == IndexList(table)[i] IN
      [name |-> idx.name, columns |-> table.indexes[i].columns, unique |-> idx.unique = 1,
       type |-> "", isPrimary |-> idx.origin = "pk", cardinality |-> Null,
       partial |-> IF idx.partial # 0 THEN PartialExpr(IndexSql(tableName, table.indexes[i]))
                   ELSE ""]]]

\* a table the catalog does not have: every statement returns no rows
NoTable == [name |-> "", estimate |-> <<>>, rows |-> 0, columns |-> <<>>,
            foreignKeys |-> <<>>, indexes |-> <<>>]

\* the TableDescription of the dialect, lines 308..310
TableDescription(dialect, tableName, catalog) ==
  LET found == TableNamed(catalog.tables, tableName)
      table == IF found = <<>> THEN NoTable ELSE found[1]
  IN IF dialect = "pg" THEN describeTablePg(tableName, table)
     ELSE IF dialect = "mysql2" THEN describeTableMysql(tableName, table)
     ELSE describeTableSqlite(tableName, table)

\* Math.max(...columns.map(c => c.type.length), least)
MaxTypeLength(columns, least) ==
  LET lengths == {least} \cup {Len(columns[i].type) : i \in 1..Len(columns)}
  IN CHOOSE m \in lengths : \A n \in lengths : n <= m

\* the texts that are not empty, lines 323 and 347
RECURSIVE NonEmpty(_)
NonEmpty(texts) ==
  IF texts = <<>> THEN <<>>
  ELSE (IF Head(texts) = "" THEN <<>> ELSE <<Head(texts)>>) \o NonEmpty(Tail(texts))

\* describeTable, lines 318..325: the line of a column
ColumnLine(col, maxColName, maxType) ==
  LET flags == NonEmpty(<<IF col.isPrimaryKey THEN "PK" ELSE "",
                          IF ~col.nullable THEN "NOT NULL" ELSE "",
                          IF col.defaultValue # "" THEN "DEFAULT " \o col.defaultValue ELSE "">>)
  IN "  " \o padEnd(col.name, maxColName) \o "  " \o padEnd(col.type, maxType)
       \o (IF flags # <<>> THEN "  [" \o JoinComma(flags) \o "]" ELSE "")

\* describeTable, lines 340..349: the line of an index
IndexLine(idx) ==
  LET parts == NonEmpty(<<idx.type,
                          IF idx.isPrimary THEN "primary" ELSE "",
                          IF idx.unique /\ ~idx.isPrimary THEN "unique" ELSE "",
                          IF idx.cardinality # Null /\ idx.cardinality > 0
                            THEN "~" \o toLocaleString(idx.cardinality) \o " distinct" ELSE "",
                          IF idx.partial # "" THEN "partial: " \o idx.partial ELSE "">>)
  IN "  " \o idx.name \o ": (" \o JoinComma(idx.columns) \o ") " \o JoinComma(parts)

\* describeTable, lines 312..352 (the source draws the arrow of a foreign
\* key with one character where this text has "->")
RenderDescription(dialect, desc) ==
  LET maxColName == MaxNameLength(desc.columns, 4)
      maxType == MaxTypeLength(desc.columns, 4)
  IN JoinLines(
       <<"Table: " \o desc.name \o " (" \o dialectName(dialect) \o ")", "", "Columns:">>
       \o [i \in 1..Len(desc.columns) |-> ColumnLine(desc.columns[i], maxColName, maxType)]
       \o (IF Len(desc.foreignKeys) > 0
             THEN <<"", "Foreign Keys:">>
                    \o [i \in 1..Len(desc.foreignKeys) |->
                          "  " \o desc.foreignKeys[i].column \o " -> "
                            \o desc.foreignKeys[i].referencedTable \o "."
                            \o desc.foreignKeys[i].referencedColumn]
             ELSE <<>>)
       \o (IF Len(desc.indexes) > 0
             THEN <<"", "Indexes:">> \o [i \in 1..Len(desc.indexes) |-> IndexLine(desc.indexes[i])]
             ELSE <<>>))

\* describeTable, lines 304..353
describeTable(dialect, tableName, catalog) ==
  RenderDescription(dialect, TableDescription(dialect, tableName, catalog))

\* a schema whose header counts the tables the database has
SchemaTablesUncounted(tables) ==
  [count |-> Len(tables), included |-> SubSeq(tables, 1, Min(Len(tables), MAX_SCHEMA_TABLES))]

\* getFullSchema, lines 369..374: the tables included, and the count the
\* header states
SchemaTables(tables) ==
  LET included == IF Len(tables) > MAX_SCHEMA_TABLES
                    THEN SubSeq(tables, 1, MAX_SCHEMA_TABLES) ELSE tables
  IN [count |-> Len(included), included |-> included]

\* getFullSchema, lines 373..381: the sections (the source draws a rule of
\* 40 box characters where this text has "=")
SchemaSections(dialect, catalog) ==
  LET schema == SchemaTables(TableSummaries(dialect, catalog))
      table(k) == schema.included[(k + 1) \div 3]
  IN [k \in 1..(3 * Len(schema.included) + 1) |->
        IF k = 1
          THEN "Database Schema (" \o ToString(schema.count) \o " tables)\n"
                 \o repeat("=", 40) \o "\n"
        ELSE IF k % 3 = 2 THEN describeTable(dialect, table(k).name, catalog)
        ELSE IF k % 3 = 0
          THEN "  Estimated rows: " \o toLocaleString(table(k).estimatedRows)
        ELSE ""]

\* getFullSchema, lines 357..384
getFullSchema(dialect, catalog) ==
  IF Len(TableSummaries(dialect, catalog)) = 0 THEN NoTablesMessage
  ELSE JoinLines(SchemaSections(dialect, catalog))

(***************************************************************************)
(* State                                                                   *)
(***************************************************************************)
VARIABLES
  knexInstance,          \* database.ts: the handle held, 0 for null
  currentDialect,        \* database.ts: the dialect tag, "null" for null
  autoConnectAttempted,  \* the server's flag
  envCS,                 \* process.env.DB_CONNECTION_STRING, "" when unset
  handles,               \* the Knex handles, by number
  calls,                 \* the call in progress of each caller
  returned,              \* the call that returned in this step, with its result
  lastLog,               \* the line most recently written to the log
  active,                \* a connect has succeeded and nothing ended it since
  started                \* the number of calls made so far

vars == <<knexInstance, currentDialect, autoConnectAttempted, envCS, handles,
          calls, returned, lastLog, active, started>>

\* handles that can be in use (open, or still referred to) at one time
MaxHandles == 3

\* calls the model lets the callers make in one run
MaxCalls == 3

\* the callers whose calls may overlap
Slots == {1, 2}

IntrospectionTools == {"list_tables", "describe_table", "get_schema"}
StatementTools == {"query", "explain_query", "chart"}
Tools == IntrospectionTools \cup StatementTools

\* the options of the chart tool, lines 273..281: title and chartType; xAxis
\* ("" for none); series as <<list>>, or <<>> for none; stacked
NoOptions == [title |-> "", chartType |-> "bar", xAxis |-> "", series |-> <<>>, stacked |-> FALSE]

\* the configuration of a chart, lines 311..326: xAxisKey; dataKey, Undefined
\* where the series have no first column; multiSeries as <<list>>, or <<>>
\* where the key is not set; stacked, set only to true
NoConfig == [xAxisKey |-> "", dataKey |-> "", multiSeries |-> <<>>, stacked |-> FALSE]

\* what a tool returns: the error mark and the text; for query the rows shown
\* and the figures of the notice; for explain_query the ExplainResult; for
\* list_tables the TableSummary list its text is made of; for get_schema the
\* sections its text is joined from; for chart the configuration
NoOut == [isError |-> FALSE, text |-> "", rows |-> <<>>, notice |-> <<>>, explain |-> EmptyResult,
          tables |-> <<>>, sections |-> <<>>, config |-> NoConfig]
TextOut(t) == [NoOut EXCEPT !.text = t]
\* an error result that carries no message
ErrorOutSilent(msg) == [NoOut EXCEPT !.isError = TRUE]

ErrorOut(msg) == [NoOut EXCEPT !.isError = TRUE, !.text = "Error: " \o msg]

\* the plan a backend returns for an EXPLAIN statement: the plan tree of
\* Postgres (<<>> when the rows hold none), the plan document of MySQL
\* (JNull when the rows hold none), the detail texts of SQLite's plan rows
NoPlan == [tree |-> <<>>, raw |-> JNull, details |-> <<>>]

\* a caller with no call in progress.  Of a call in progress: its position,
\* the tool and its argument, the connection string connect was given, the
\* client connect selected or the dialect the tool dispatched on, the handle
\* its awaited statement runs on (0: none, or the statement is rejected),
\* whether it passed any statement to a handle, the text it passed last,
\* whether the handle it passed it to had completed the liveness and the
\* read-only statement, whether the call began with no connection active
\* and no connection string in the environment, and what the backend
\* returned for its statement: the number of rows, or the plan; for the
\* introspection tools whether a catalog statement has completed, the
\* catalog the backend answers from, and the calls of describeTable that
\* getFullSchema has made; for chart its options and the columns of the
\* first row of the result.
IdleCall == [pc |-> "idle", tool |-> "none", arg |-> "", cs |-> "", client |-> "null",
             h |-> 0, sent |-> FALSE, stmt |-> "", guarded |-> FALSE, unconnected |-> FALSE,
             got |-> 0, plan |-> NoPlan, listed |-> FALSE, catalog |-> NoCatalog,
             described |-> 0, options |-> NoOptions, columns |-> <<>>]

NewCall(tool, arg, cs) ==
  [IdleCall EXCEPT !.tool = tool, !.arg = arg, !.cs = cs,
                   !.unconnected = (~active /\ envCS = "")]

\* no call returned in this step; otherwise the call as it was when it
\* returned, and what it returned
NoReturn == [call |-> IdleCall, out |-> NoOut]

\* a handle that was destroyed, or a number no handle has yet
Closed == [client |-> "null", open |-> FALSE, alive |-> FALSE, readOnly |-> FALSE]

\* Knex({...}): a handle on which nothing has run yet
NewHandle(client) == [client |-> client, open |-> TRUE, alive |-> FALSE, readOnly |-> FALSE]

\* the handles created and not destroyed
LiveHandles == {h \in 1..MaxHandles : handles[h].open}

\* numbers free for a new handle: destroyed and referred to by nothing
FreeHandles ==
  {h \in 1..MaxHandles : /\ ~handles[h].open
                         /\ knexInstance # h
                         /\ \A s \in Slots : calls[s].h # h}

\* the handle a statement passed to h completes on: 0 (it is rejected) when
\* h was destroyed before the statement was passed to it
Target(h) == IF handles[h].open THEN h ELSE 0

\* a statement completed on handle h: what is then known of the handle
Completed(hs, h, field) ==
  IF ~hs[h].open THEN hs
  ELSE IF field = "alive" THEN [hs EXCEPT ![h].alive = TRUE]
  ELSE [hs EXCEPT ![h].readOnly = TRUE]

\* the process as it starts, with DB_CONNECTION_STRING one of env
InitWith(env) ==
  /\ knexInstance = 0
  /\ currentDialect = "null"
  /\ autoConnectAttempted = FALSE
  /\ envCS \in env
  /\ handles = [h \in 1..MaxHandles |-> Closed]
  /\ calls = [s \in Slots |-> IdleCall]
  /\ returned = NoReturn
  /\ lastLog = ""
  /\ active = FALSE
  /\ started = 0

\* the call of caller s returns out: every handler catches what is thrown
\* and returns a result
Return(s, c, out) ==
  /\ calls' = [calls EXCEPT ![s] = IdleCall]
  /\ returned' = [call |-> c, out |-> out]

\* knex.raw(text) on the handle held: the call then awaits the statement
Pass(s, c, text, pc) ==
  /\ calls' = [calls EXCEPT ![s] =
       [c EXCEPT !.pc = pc, !.h = Target(knexInstance), !.sent = TRUE, !.stmt = text,
                 !.guarded = (handles[knexInstance].alive /\ handles[knexInstance].readOnly)]]
  /\ returned' = NoReturn

(***************************************************************************)
(* database.ts connect, lines 76..86: parse, create the handle, pass the   *)
(* liveness statement to it.  c is the call's record; connect runs either  *)
(* as the connect tool or inside ensureConnection.                         *)
(***************************************************************************)
Open(s, c) ==
  LET p == parseConnectionString(c.cs) IN
  IF ~p.ok
    THEN /\ Return(s, c, ErrorOut(p.message))
         /\ knexInstance' = 0
         /\ UNCHANGED handles
    ELSE /\ FreeHandles # {}
         /\ LET h == CHOOSE k \in FreeHandles : \A j \in FreeHandles : k <= j IN
            /\ handles' = [handles EXCEPT ![h] = NewHandle(p.client)]
            /\ knexInstance' = h
            /\ calls' = [calls EXCEPT ![s] =
                 [c EXCEPT !.pc = "c_live", !.client = p.client, !.h = h, !.sent = TRUE,
                           !.stmt = LivenessStatement, !.guarded = FALSE]]
            /\ returned' = NoReturn

\* connect, lines 68..71 (and on to 86 when there is nothing to destroy)
StartConnect(s, cs) ==
  /\ calls[s].pc = "idle"
  /\ started < MaxCalls
  /\ started' = started + 1
  /\ IF knexInstance # 0
       THEN /\ handles' = [handles EXCEPT ![knexInstance] = Closed]
            /\ calls' = [calls EXCEPT ![s] = [NewCall("connect", "", cs) EXCEPT !.pc = "c_destroy"]]
            /\ returned' = NoReturn
            /\ UNCHANGED <<knexInstance, active>>
       ELSE /\ Open(s, NewCall("connect", "", cs))
            /\ active' = (active /\ parseConnectionString(cs).ok)
  /\ UNCHANGED <<currentDialect, autoConnectAttempted, envCS, lastLog>>

\* a connect that examines the connection string before it clears the
\* dialect tag, and leaves the tag when the string is not recognized
ConnectExaminingFirst(s) ==
  /\ calls[s].pc = "c_destroy"
  /\ currentDialect' = IF parseConnectionString(calls[s].cs).ok THEN "null" ELSE currentDialect
  /\ active' = FALSE
  /\ Open(s, calls[s])
  /\ UNCHANGED <<autoConnectAttempted, envCS, lastLog, started>>

\* connect, lines 72..86: after the await of destroy
ConnectAfterDestroy(s) ==
  /\ calls[s].pc = "c_destroy"
  /\ currentDialect' = "null"
  /\ active' = FALSE
  /\ Open(s, calls[s])
  /\ UNCHANGED <<autoConnectAttempted, envCS, lastLog, started>>

\* connect, lines 86..94: after the await of the liveness statement
ConnectLive(s, ok) ==
  LET c == calls[s]
      alive == Completed(handles, c.h, "alive")
  IN /\ c.pc = "c_live"
     /\ ok => c.h # 0
     /\ IF ~ok
          THEN /\ Return(s, c, ErrorOut(DriverMessage))
               /\ active' = FALSE
               /\ UNCHANGED handles
          ELSE IF knexInstance = 0
            THEN /\ Return(s, c, ErrorOut(NullHandleMessage))
                 /\ active' = FALSE
                 /\ handles' = alive
            ELSE /\ handles' = alive
                 /\ calls' = [calls EXCEPT ![s] =
                      [c EXCEPT !.pc = "c_ro", !.h = Target(knexInstance),
                                !.stmt = ReadOnlyStatement(c.client)]]
                 /\ returned' = NoReturn
                 /\ UNCHANGED active
     /\ UNCHANGED <<knexInstance, currentDialect, autoConnectAttempted, envCS, lastLog, started>>

\* connect, lines 97..100: after the await of the read-only statement; then
\* the connect tool returns, or ensureConnection resolves
ConnectReadOnly(s, ok) ==
  LET c == calls[s] IN
  /\ c.pc = "c_ro"
  /\ ok => c.h # 0
  /\ IF ~ok
       THEN /\ Return(s, c, ErrorOut(DriverMessage))
            /\ active' = FALSE
            /\ UNCHANGED <<handles, currentDialect>>
       ELSE /\ handles' = Completed(handles, c.h, "readOnly")
            /\ currentDialect' = c.client
            /\ active' = TRUE
            /\ IF c.tool = "connect"
                 THEN Return(s, c, TextOut(ConnectedMessage(c.client) \o "\nConnection: "
                                             \o redactConnectionString(c.cs)))
                 ELSE /\ calls' = [calls EXCEPT ![s] = [c EXCEPT !.pc = "ensured"]]
                      /\ returned' = NoReturn
  /\ UNCHANGED <<knexInstance, autoConnectAttempted, envCS, lastLog, started>>

\* disconnect, lines 141..143
StartDisconnect(s) ==
  /\ calls[s].pc = "idle"
  /\ started < MaxCalls
  /\ started' = started + 1
  /\ IF knexInstance # 0
       THEN /\ handles' = [handles EXCEPT ![knexInstance] = Closed]
            /\ calls' = [calls EXCEPT ![s] =
                 [NewCall("disconnect", "", "") EXCEPT !.pc = "d_destroy", !.h = knexInstance]]
            /\ returned' = NoReturn
       ELSE /\ Return(s, NewCall("disconnect", "", ""), NoOut)
            /\ UNCHANGED handles
  /\ UNCHANGED <<knexInstance, currentDialect, autoConnectAttempted, envCS, lastLog, active>>

\* a disconnect that keeps the dialect tag
DisconnectKeepingDialect(s) ==
  /\ calls[s].pc = "d_destroy"
  /\ knexInstance' = 0
  /\ active' = FALSE
  /\ Return(s, calls[s], NoOut)
  /\ UNCHANGED <<currentDialect, autoConnectAttempted, envCS, handles, lastLog, started>>

\* disconnect, lines 144..145: after the await of destroy
DisconnectAfterDestroy(s) ==
  /\ calls[s].pc = "d_destroy"
  /\ knexInstance' = 0
  /\ currentDialect' = "null"
  /\ active' = FALSE
  /\ Return(s, calls[s], NoOut)
  /\ UNCHANGED <<autoConnectAttempted, envCS, handles, lastLog, started>>

(***************************************************************************)
(* The server's tool handlers                                              *)
(***************************************************************************)
\* an ensureConnection that attempts the automatic connection whenever no
\* handle is held and the environment names a connection string
StartToolRetrying(s, tool, arg, options) ==
  /\ calls[s].pc = "idle"
  /\ started < MaxCalls
  /\ started' = started + 1
  /\ IF knexInstance # 0
       THEN /\ calls' = [calls EXCEPT ![s] = [[NewCall(tool, arg, "") EXCEPT !.options = options] EXCEPT !.pc = "ensured"]]
            /\ returned' = NoReturn
            /\ UNCHANGED <<knexInstance, autoConnectAttempted, handles, lastLog, active>>
       ELSE IF envCS # ""
         THEN /\ autoConnectAttempted' = TRUE
              /\ lastLog' = AutoConnectLog(envCS)
              /\ Open(s, [NewCall(tool, arg, envCS) EXCEPT !.options = options])
              /\ active' = (active /\ parseConnectionString(envCS).ok)
         ELSE /\ Return(s, [NewCall(tool, arg, "") EXCEPT !.options = options], ErrorOut(NotConnectedMessage))
              /\ UNCHANGED <<knexInstance, autoConnectAttempted, handles, lastLog, active>>
  /\ UNCHANGED <<currentDialect, envCS>>

\* a tool handler up to the end of ensureConnection's synchronous part
StartToolWith(s, tool, arg, options) ==
  /\ calls[s].pc = "idle"
  /\ started < MaxCalls
  /\ started' = started + 1
  /\ IF knexInstance # 0
       THEN /\ calls' = [calls EXCEPT ![s] = [[NewCall(tool, arg, "") EXCEPT !.options = options] EXCEPT !.pc = "ensured"]]
            /\ returned' = NoReturn
            /\ UNCHANGED <<knexInstance, autoConnectAttempted, handles, lastLog, active>>
       ELSE IF ~autoConnectAttempted /\ envCS # ""
         THEN /\ autoConnectAttempted' = TRUE
              /\ lastLog' = AutoConnectLog(envCS)
              /\ Open(s, [NewCall(tool, arg, envCS) EXCEPT !.options = options])
              /\ active' = (active /\ parseConnectionString(envCS).ok)
         ELSE /\ Return(s, [NewCall(tool, arg, "") EXCEPT !.options = options], ErrorOut(NotConnectedMessage))
              /\ UNCHANGED <<knexInstance, autoConnectAttempted, handles, lastLog, active>>
  /\ UNCHANGED <<currentDialect, envCS>>

\* a call of a tool with no options beside its argument
StartTool(s, tool, arg) == StartToolWith(s, tool, arg, NoOptions)

ExplainPrefix(dialect) ==
  IF dialect = "pg" THEN "EXPLAIN (FORMAT JSON) "
  ELSE IF dialect = "mysql2" THEN "EXPLAIN FORMAT=JSON "
  ELSE "EXPLAIN QUERY PLAN "

\* the first catalog statement of listTables, describeTable and getFullSchema
CatalogStatement(dialect) ==
  IF dialect = "pg" THEN "SELECT ... FROM pg_tables"
  ELSE IF dialect = "mysql2" THEN "SELECT ... FROM information_schema.TABLES"
  ELSE "SELECT name FROM sqlite_master"

\* a tool handler after ensureConnection: the validation, getDialect and the
\* dispatch, up to the await of the first statement (database.ts query,
\* lines 124..125: getKnex, then knex.raw)
Ensured(s) ==
  LET c == calls[s] IN
  /\ c.pc = "ensured"
  /\ IF c.tool \in StatementTools /\ ~IsReadStatement(c.arg)
       THEN Return(s, c, ErrorOut(ValidationMessage))
     ELSE IF c.tool \in {"query", "chart"}
       THEN IF knexInstance = 0
              THEN Return(s, c, ErrorOut(NotConnectedMessage \o dialectHint(currentDialect)))
              ELSE Pass(s, c, c.arg, "exec")
     ELSE IF currentDialect = "null"
       THEN Return(s, c, ErrorOut(NoDialectMessage))
     ELSE IF knexInstance = 0
       THEN Return(s, c, ErrorOut(NotConnectedMessage))
     ELSE IF c.tool = "explain_query"
       THEN Pass(s, [c EXCEPT !.client = currentDialect],
                 ExplainPrefix(currentDialect) \o c.arg, "exec")
     ELSE Pass(s, [c EXCEPT !.client = currentDialect], CatalogStatement(currentDialect), "cat")
  /\ UNCHANGED <<knexInstance, currentDialect, autoConnectAttempted, envCS, handles, lastLog, active, started>>

\* what knex.raw resolves to, by driver: [rows, fields] for mysql2,
\* {rows: [...]} for pg, the bare array for better-sqlite3
DriverResult(client, rows) ==
  IF client = "mysql2" THEN [shape |-> "pair", first |-> rows, second |-> <<"fields">>]
  ELSE IF client = "pg" THEN [shape |-> "object", first |-> rows, second |-> <<>>]
  ELSE [shape |-> "array", first |-> rows, second |-> <<>>]

\* database.ts query, lines 126..138: the rows of a driver result
QueryRows(result) == result.first

\* the columns of the rows of a result
ResultColumns == <<"label", "value">>

\* the rows the backend returns for a statement, in backend order
BackendRows(n) == [i \in 1..n |-> n + 1 - i]

\* a cap that a result of exactly MAX_QUERY_ROWS rows already exceeds
QueryOutInclusive(rows) ==
  LET truncated == Len(rows) >= MAX_QUERY_ROWS IN
  [NoOut EXCEPT
     !.rows = IF truncated THEN SubSeq(rows, 1, MAX_QUERY_ROWS) ELSE rows,
     !.notice = IF truncated THEN <<MAX_QUERY_ROWS, Len(rows)>> ELSE <<>>]

\* the query tool, lines 208..219: the cap and the notice
QueryOut(rows) ==
  LET truncated == Len(rows) > MAX_QUERY_ROWS IN
  [NoOut EXCEPT
     !.rows = IF truncated THEN SubSeq(rows, 1, MAX_QUERY_ROWS) ELSE rows,
     !.notice = IF truncated THEN <<MAX_QUERY_ROWS, Len(rows)>> ELSE <<>>]

\* the explain_query tool, lines 252..258
ExplainOut(dialect, plan) ==
  LET explained == explainQuery(dialect, plan) IN
  IF explained.ok
    THEN [TextOut(formatExplainResult(explained.result)) EXCEPT !.explain = explained.result]
    ELSE ErrorOut(explained.message)

\* JSON.stringify of a list of texts
RECURSIVE JsonList(_)
JsonList(items) ==
  IF items = <<>> THEN ""
  ELSE IF Len(items) = 1 THEN items[1]
  ELSE JsonList(SubSeq(items, 1, Len(items) \div 2)) \o ","
         \o JsonList(SubSeq(items, Len(items) \div 2 + 1, Len(items)))

Quoted(text) == "\"" \o text \o "\""

\* the chart tool, lines 307..326: the configuration made of the options and
\* the columns of the first row
chartConfig(options, columns) ==
  LET xAxisKey == IF options.xAxis # "" THEN options.xAxis ELSE columns[1]
      NotXAxis(c) == c # xAxisKey
      seriesColumns == IF options.series # <<>> THEN options.series[1]
                       ELSE SelectSeq(columns, NotXAxis)
  IN [xAxisKey |-> xAxisKey,
      dataKey |-> IF seriesColumns = <<>> THEN Undefined ELSE seriesColumns[1],
      multiSeries |-> IF Len(seriesColumns) > 1 THEN <<seriesColumns>> ELSE <<>>,
      stacked |-> options.stacked]

\* the chart tool, lines 303..330: JSON.stringify leaves out a key whose
\* value is undefined; of the rows the text of the model keeps the number
ChartOut(options, columns, rows) ==
  LET config == chartConfig(options, columns) IN
  IF Len(rows) = 0
    THEN [NoOut EXCEPT !.isError = TRUE, !.text = "Query returned no results"]
    ELSE [TextOut("{" \o JsonList(
                    <<Quoted("title") \o ":" \o Quoted(options.title),
                      Quoted("chartType") \o ":" \o Quoted(options.chartType),
                      Quoted("data") \o ":[" \o ToString(Len(rows)) \o " rows]",
                      Quoted("xAxisKey") \o ":" \o Quoted(config.xAxisKey)>>
                    \o (IF config.dataKey = Undefined THEN <<>>
                        ELSE <<Quoted("dataKey") \o ":" \o Quoted(config.dataKey)>>)
                    \o (IF config.multiSeries = <<>> THEN <<>>
                        ELSE <<Quoted("multiSeries") \o ":["
                                 \o JsonList([i \in 1..Len(config.multiSeries[1]) |->
                                                Quoted(config.multiSeries[1][i])]) \o "]">>)
                    \o (IF config.stacked THEN <<Quoted("stacked") \o ":true">> ELSE <<>>))
                  \o "}")
            EXCEPT !.config = config]

\* query, explain_query and chart after the await of the statement; client
\* is the driver of the handle the statement ran on, which returned n rows
\* of these columns, or the plan for an EXPLAIN statement in its own syntax
ExecDone(s, ok, client, n, columns, plan) ==
  LET c == calls[s]
      rows == QueryRows(DriverResult(client, BackendRows(n)))
      explain == c.tool = "explain_query"
  IN /\ c.pc = "exec"
     /\ ok => c.h # 0
     /\ (ok /\ explain) => client = c.client
     /\ Return(s, [c EXCEPT !.got = IF ok /\ ~explain THEN n ELSE 0,
                             !.plan = IF ok /\ explain THEN plan ELSE NoPlan,
                             !.columns = IF ok /\ c.tool = "chart" /\ n > 0 THEN columns
                                         ELSE <<>>],
          IF ~ok
            THEN ErrorOut(IF explain THEN DriverMessage
                          ELSE DriverMessage \o dialectHint(currentDialect))
          ELSE IF c.tool = "query" THEN QueryOut(rows)
          ELSE IF c.tool = "chart" THEN ChartOut(c.options, columns, rows)
          ELSE ExplainOut(c.client, plan))
     /\ UNCHANGED <<knexInstance, currentDialect, autoConnectAttempted, envCS, handles,
                    lastLog, active, started>>

\* what list_tables, describe_table and get_schema return, lines 117..118,
\* 138..139 and 155..156
CatalogOut(tool, dialect, arg, catalog) ==
  IF tool = "list_tables"
    THEN [TextOut(listTables(dialect, catalog)) EXCEPT !.tables = TableSummaries(dialect, catalog)]
  ELSE IF tool = "describe_table" THEN TextOut(describeTable(dialect, arg, catalog))
  ELSE [TextOut(getFullSchema(dialect, catalog)) EXCEPT
          !.sections = IF Len(TableSummaries(dialect, catalog)) = 0 THEN <<>>
                       ELSE SchemaSections(dialect, catalog)]

\* list_tables, describe_table and get_schema after the await of a catalog
\* statement, which the backend answers from its catalog: the result is
\* complete, or another statement follows (one more query, or for get_schema
\* a describeTable of the next table included, which asks getDialect again)
CatalogDone(s, ok, more, catalog) ==
  LET c == calls[s]
      seen == [c EXCEPT !.listed = TRUE, !.catalog = catalog]
      toDescribe == Len(SchemaTables(TableSummaries(c.client, catalog)).included)
  IN /\ c.pc = "cat"
     /\ ok => c.h # 0
     /\ c.listed => catalog = c.catalog
     /\ more = "describe" => (c.tool = "get_schema" /\ c.described < toDescribe)
     /\ (more = "none" /\ c.tool = "get_schema") => c.described = toDescribe
     /\ IF ~ok THEN Return(s, c, ErrorOut(DriverMessage))
        ELSE IF more = "none" THEN Return(s, seen, CatalogOut(c.tool, c.client, c.arg, catalog))
        ELSE IF more = "describe" /\ currentDialect = "null"
          THEN Return(s, seen, ErrorOut(NoDialectMessage))
        ELSE IF knexInstance = 0 THEN Return(s, seen, ErrorOut(NotConnectedMessage))
        ELSE Pass(s, [seen EXCEPT !.described = IF more = "describe" THEN @ + 1 ELSE @],
                  "SELECT ... (catalog)", "cat")
     /\ UNCHANGED <<knexInstance, currentDialect, autoConnectAttempted, envCS, handles, lastLog, active, started>>

(***************************************************************************)
(* Spec: two callers whose calls overlap at every await                    *)
(***************************************************************************)
Clients == {"pg", "mysql2", "better-sqlite3"}

\* the callers are interchangeable: the second starts a call only while the
\* first has one in progress
MayStart(s) == s = 1 \/ calls[1].pc # "idle"

\* the driver of the handle the statement of caller s ran on
DriverOf(s) == IF calls[s].h = 0 THEN "null" ELSE handles[calls[s].h].client

EnvStrings == {"", "a.db"}
ConnStrings == {"postgres://u:s3cr3t@h/d", "a.db", "ftp://u:s3cr3t@h/d"}
Statements == {"SELECT 1"}
RowCounts == {1}
Plans == {NoPlan}

\* a table of one column, with the estimate the catalog keeps for it and the
\* rows it holds
PlainTable(name, estimate, rows) ==
  [name |-> name, estimate |-> estimate, rows |-> rows,
   columns |-> <<[name |-> "id", type |-> "integer", notNull |-> TRUE, default |-> "", pk |-> 1]>>,
   foreignKeys |-> <<>>, indexes |-> <<>>]

Catalogs == {[tables |-> <<PlainTable("t", <<7>>, 7)>>]}

Init == InitWith(EnvStrings)

Next ==
  \/ \E s \in Slots, cs \in ConnStrings : MayStart(s) /\ StartConnect(s, cs)
  \/ \E s \in Slots : ConnectAfterDestroy(s)
  \/ \E s \in Slots, ok \in BOOLEAN : ConnectLive(s, ok)
  \/ \E s \in Slots, ok \in BOOLEAN : ConnectReadOnly(s, ok)
  \/ \E s \in Slots : MayStart(s) /\ StartDisconnect(s)
  \/ \E s \in Slots : DisconnectAfterDestroy(s)
  \/ \E s \in Slots, tool \in Tools, sql \in Statements : MayStart(s) /\ StartTool(s, tool, sql)
  \/ \E s \in Slots : Ensured(s)
  \/ \E s \in Slots, ok \in BOOLEAN, n \in RowCounts, plan \in Plans :
       ExecDone(s, ok, DriverOf(s), n, ResultColumns, plan)
  \/ \E s \in Slots, ok \in BOOLEAN, more \in {"none", "statement", "describe"},
          catalog \in Catalogs : CatalogDone(s, ok, more, catalog)

Spec == Init /\ [][Next]_vars

(***************************************************************************)
(* SpecSeq: one caller, each call made after the previous one returned,    *)
(* over a wider range of connection strings, statements and results        *)
(***************************************************************************)
\* connection strings with a password segment: the text before it, the
\* password, the text after it
Credentials ==
  { [before |-> "postgres://u:",   password |-> "s3cr3t",  after |-> "@h/d"],
    [before |-> "postgresql://u:", password |-> "s3cr3t",  after |-> "@h/d"],
    [before |-> "mysql://u:",      password |-> "s3cr3t",  after |-> "@h/d"],
    [before |-> "ftp://u:",        password |-> "s3cr3t",  after |-> "@h/d"],
    [before |-> "postgres://u:",   password |-> "s3:cr3t", after |-> "@h/d"],
    [before |-> "postgres://u:",   password |-> "s3@cr3t", after |-> "@h/d"] }

CredentialString(cred) == cred.before \o cred.password \o cred.after

SeqConnStrings ==
  {CredentialString(cred) : cred \in Credentials}
    \cup {"sqlite:///tmp/a.db", "sqlite:", " a.db ", "d.sqlite", "d.sqlite3", ":memory:",
          "notes.txt", "", "postgres://bad host/d"}

SeqEnvStrings == {"", "a.db", "postgres://u:s3cr3t@h/d", "ftp://u:s3cr3t@h/d"}

\* statements that are read statements
ReadStatements ==
  { "SELECT 1", "select * from t", "  Select 1 ", "\n\tselect 1",
    "WITH x AS (SELECT 1) SELECT * FROM x", "with x as (select 1) select * from x" }

\* statements that are not
OtherStatements ==
  { "DELETE FROM t", "  delete   from t", "DeLeTe FROM t", "\tDELETE\nFROM  t", "delete from t",
    "", "   ", "SELEC", "(SELECT 1)", "INSERT INTO t SELECT 1", "UPDATE t SET selected = 1" }

SeqStatements == ReadStatements \cup OtherStatements

SeqRowCounts ==
  {0, 1, MAX_QUERY_ROWS - 1, MAX_QUERY_ROWS, MAX_QUERY_ROWS + 1, MAX_QUERY_ROWS + 2}

\* one plan of each dialect, and a result without a plan
SeqPlans ==
  { NoPlan,
    [NoPlan EXCEPT !.tree = <<PgNode("Seq Scan", "t", "", 1000, <<>>)>>],
    [NoPlan EXCEPT !.raw = JObject(<<"table_name", "access_type", "key">>,
                                   <<JString("t"), JString("ref"), JString("idx_a")>>)],
    [NoPlan EXCEPT !.details = <<"SCAN t">>] }

\* a database without tables, and one of two tables
SeqCatalogs == {NoCatalog, [tables |-> <<PlainTable("t", <<7>>, 7), PlainTable("u", <<1500>>, 1500)>>]}

InitSeq == InitWith(SeqEnvStrings)

NextSeq ==
  \/ \E cs \in SeqConnStrings : StartConnect(1, cs)
  \/ ConnectAfterDestroy(1)
  \/ \E ok \in BOOLEAN : ConnectLive(1, ok)
  \/ \E ok \in BOOLEAN : ConnectReadOnly(1, ok)
  \/ StartDisconnect(1)
  \/ DisconnectAfterDestroy(1)
  \/ \E tool \in Tools, sql \in SeqStatements : StartTool(1, tool, sql)
  \/ Ensured(1)
  \/ \E ok \in BOOLEAN, n \in SeqRowCounts, plan \in SeqPlans :
       ExecDone(1, ok, DriverOf(1), n, ResultColumns, plan)
  \/ \E ok \in BOOLEAN, more \in {"none", "statement", "describe"}, catalog \in SeqCatalogs :
       CatalogDone(1, ok, more, catalog)

SpecSeq == InitSeq /\ [][NextSeq]_vars

(***************************************************************************)
(* SpecExplain: one caller that connects to a backend of each dialect and  *)
(* asks for the plan of a read statement, over a range of plans            *)
(***************************************************************************)
\* the nesting of child plans below the top node of a Postgres plan
MaxPlanDepth == 2

\* the plan rows of a SQLite plan
MaxPlanLines == 2

PgLeaves ==
  { PgNode("Seq Scan", "t", "", 1000, <<>>),
    PgNode("Seq Scan", "u", "", Null, <<>>),
    PgNode("Seq Scan", "", "", 7, <<>>),
    PgNode("Index Scan", "t", "idx_a", 5, <<>>),
    PgNode("Index Only Scan", "u", "idx_a", Null, <<>>),
    PgNode("Bitmap Index Scan", "", "idx_b", 2000000, <<>>) }

PgInner(plans) ==
  { PgNode("Limit", "", "", 10, plans),
    PgNode("Nested Loop", "", "", Null, plans) }

\* plan trees of at most depth levels below the top node: a leaf, or an
\* inner node over one subtree or over two leaves
RECURSIVE PgTrees(_)
PgTrees(depth) ==
  IF depth = 0 THEN PgLeaves
  ELSE PgLeaves
         \cup UNION {PgInner(<<t>>) : t \in PgTrees(depth - 1)}
         \cup UNION {PgInner(<<l, r>>) : <<l, r>> \in PgLeaves \X PgLeaves}

\* a table object of a MySQL plan; key and rows appear only when given
MysqlTable(name, access, key, rows, more) ==
  JObject(
    <<"table_name", "access_type">>
      \o (IF key # "" THEN <<"key">> ELSE <<>>)
      \o (IF rows # Null THEN <<"rows_examined_per_scan">> ELSE <<>>)
      \o (IF more # <<>> THEN <<"attached_subqueries">> ELSE <<>>),
    <<JString(name), JString(access)>>
      \o (IF key # "" THEN <<JString(key)>> ELSE <<>>)
      \o (IF rows # Null THEN <<JNumber(rows)>> ELSE <<>>)
      \o (IF more # <<>> THEN <<JArray(more)>> ELSE <<>>))

MysqlLeafTables ==
  { MysqlTable("t", "ALL", "", 1000, <<>>),
    MysqlTable("u", "ALL", "", Null, <<>>),
    MysqlTable("", "ALL", "", 3, <<>>),
    MysqlTable("t", "ref", "idx_a", 5, <<>>),
    MysqlTable("u", "index", "idx_a", 2000000, <<>>) }

QueryBlock(body) == JObject(<<"query_block">>, <<body>>)

\* a table with a subquery attached to it
MysqlTables ==
  MysqlLeafTables
    \cup { MysqlTable("v", "range", "idx_b", 40,
                      <<QueryBlock(JObject(<<"select_id", "table">>, <<JNumber(2), t>>))>>)
           : t \in MysqlLeafTables }

\* plan documents: one table, an ordering over one table, a nested loop
\* over two tables, a scanned table with a subquery attached, and tables
\* below arrays of arrays and keys of other names
MysqlDocuments ==
  { QueryBlock(JObject(<<"select_id", "table">>, <<JNumber(1), t>>)) : t \in MysqlTables }
    \cup { QueryBlock(JObject(<<"ordering_operation">>,
                              <<JObject(<<"using_filesort", "table">>, <<JString("true"), t>>)>>))
           : t \in MysqlLeafTables }
    \cup { QueryBlock(JObject(<<"nested_loop">>,
                              <<JArray(<<JObject(<<"table">>, <<l>>), JObject(<<"table">>, <<r>>)>>)>>))
           : <<l, r>> \in MysqlLeafTables \X MysqlLeafTables }
    \cup { QueryBlock(JObject(<<"select_id", "table">>,
                              <<JNumber(1),
                                MysqlTable("w", "ALL", "", 9,
                                           <<QueryBlock(JObject(<<"table">>, <<t>>))>>)>>))
           : t \in MysqlLeafTables }
    \cup { QueryBlock(JObject(<<"grouping_operation", "cost_info">>,
                              <<JObject(<<"buffer_result">>,
                                        <<JArray(<<JArray(<<JObject(<<"table">>, <<t>>)>>),
                                                   MysqlTable("u", "ALL", "", 2, <<>>)>>)>>),
                                JObject(<<"query_cost">>, <<JString("1.00")>>)>>))
           : t \in MysqlLeafTables }

\* plan rows of SQLite: the detail text; for a row that begins with SCAN
\* the table it scans, and the index it names ("" for none)
PlanLines ==
  { [detail |-> "SCAN t",                                  table |-> "t", index |-> ""],
    [detail |-> "SCAN u",                                  table |-> "u", index |-> ""],
    [detail |-> "SCAN t USING INDEX idx_a",                table |-> "t", index |-> "idx_a"],
    [detail |-> "SCAN t USING COVERING INDEX idx_a",       table |-> "t", index |-> "idx_a"],
    [detail |-> "SCAN u  USING\tCOVERING INDEX idx_b",     table |-> "u", index |-> "idx_b"],
    [detail |-> "SCAN v USING INDEX idx_a SEARCH w USING INDEX idx_a (a=?)",
                                                           table |-> "v", index |-> "idx_a"],
    [detail |-> "SEARCH t USING INDEX idx_a (a=?)",        table |-> "",  index |-> ""],
    [detail |-> "SEARCH u USING COVERING INDEX idx_b (b=?)", table |-> "", index |-> ""],
    [detail |-> "SEARCH t USING INTEGER PRIMARY KEY (rowid=?)", table |-> "", index |-> ""],
    [detail |-> "USE TEMP B-TREE FOR ORDER BY",            table |-> "",  index |-> ""] }

Details == {l.detail : l \in PlanLines}

\* the plan row with this detail text
PlanLine(detail) == CHOOSE l \in PlanLines : l.detail = detail

RECURSIVE SeqsUpTo(_, _)
SeqsUpTo(S, n) ==
  IF n = 0 THEN {<<>>}
  ELSE SeqsUpTo(S, n - 1) \cup {Append(q, x) : q \in SeqsUpTo(S, n - 1), x \in S}

\* the plans a backend of this driver returns, a malformed one among them
ExplainPlans(driver) ==
  IF driver = "pg"
    THEN {NoPlan} \cup {[NoPlan EXCEPT !.tree = <<t>>] : t \in PgTrees(MaxPlanDepth)}
  ELSE IF driver = "mysql2"
    THEN {NoPlan, [NoPlan EXCEPT !.raw = Unparsable]}
           \cup {[NoPlan EXCEPT !.raw = d] : d \in MysqlDocuments}
  ELSE IF driver = "better-sqlite3"
    THEN {[NoPlan EXCEPT !.details = d] : d \in SeqsUpTo(Details, MaxPlanLines)}
           \cup {[NoPlan EXCEPT !.details = <<"SCAN t", Undefined>>]}
  ELSE {NoPlan}

ExplainConnStrings == {"postgres://u:s3cr3t@h/d", "mysql://u:s3cr3t@h/d", "a.db"}

InitExplain == InitWith({""})

NextExplain ==
  \/ \E cs \in ExplainConnStrings : StartConnect(1, cs)
  \/ ConnectAfterDestroy(1)
  \/ \E ok \in BOOLEAN : ConnectLive(1, ok)
  \/ \E ok \in BOOLEAN : ConnectReadOnly(1, ok)
  \/ StartTool(1, "explain_query", "SELECT * FROM t")
  \/ Ensured(1)
  \/ \E ok \in BOOLEAN, plan \in ExplainPlans(DriverOf(1)) : ExecDone(1, ok, DriverOf(1), 0, <<>>, plan)

SpecExplain == InitExplain /\ [][NextExplain]_vars

(***************************************************************************)
(* SpecCatalog: one caller that connects to a backend of each dialect and  *)
(* asks for the listing, the description of a table and the full schema of *)
(* databases of no, few and many tables                                    *)
(***************************************************************************)
\* the name of the i-th of many tables, in the order of the listing
TableName(i) ==
  "t" \o (IF i < 10 THEN "00" ELSE IF i < 100 THEN "0" ELSE "") \o ToString(i)

\* a database of n tables of one column
BigCatalog(n) == [tables |-> [i \in 1..n |-> PlainTable(TableName(i), <<10 * i>>, i)]]

\* CREATE TABLE users (id INTEGER PRIMARY KEY, name TEXT NOT NULL), with an
\* index on name
UsersTable(estimate, rows) ==
  [name |-> "users", estimate |-> estimate, rows |-> rows,
   columns |-> <<[name |-> "id", type |-> "INTEGER", notNull |-> FALSE, default |-> "", pk |-> 1],
                 [name |-> "name", type |-> "TEXT", notNull |-> TRUE, default |-> "", pk |-> 0]>>,
   foreignKeys |-> <<>>,
   indexes |-> <<[name |-> "users_name", columns |-> <<"name">>, unique |-> TRUE,
                  primary |-> FALSE, partial |-> "", method |-> "btree", cardinality |-> Null]>>]

\* a table that refers to users
OrdersTable(estimate, rows) ==
  [name |-> "orders", estimate |-> estimate, rows |-> rows,
   columns |-> <<[name |-> "id", type |-> "INTEGER", notNull |-> TRUE, default |-> "", pk |-> 1],
                 [name |-> "user_id", type |-> "INTEGER", notNull |-> FALSE, default |-> "0", pk |-> 0]>>,
   foreignKeys |-> <<[column |-> "user_id", referencedTable |-> "users", referencedColumn |-> "id"]>>,
   indexes |-> <<[name |-> "orders_open", columns |-> <<"user_id", "id">>, unique |-> FALSE,
                  primary |-> FALSE, partial |-> "user_id > 0", method |-> "btree",
                  cardinality |-> 12] >>]

\* CREATE TABLE memberships (user_id INTEGER NOT NULL, group_id INTEGER NOT
\* NULL, role TEXT, PRIMARY KEY (user_id, group_id)): a composite primary
\* key, whose columns have the positions 1 and 2 in the key
MembershipsTable(estimate, rows) ==
  [name |-> "memberships", estimate |-> estimate, rows |-> rows,
   columns |-> <<[name |-> "user_id", type |-> "INTEGER", notNull |-> TRUE, default |-> "", pk |-> 1],
                 [name |-> "group_id", type |-> "INTEGER", notNull |-> TRUE, default |-> "", pk |-> 2],
                 [name |-> "role", type |-> "TEXT", notNull |-> FALSE, default |-> "", pk |-> 0]>>,
   foreignKeys |-> <<>>,
   indexes |-> <<>>]

\* the databases behind a handle of the dialect: pg_class keeps -1 for a
\* table never analyzed and has no row for some; TABLE_ROWS may be NULL;
\* SQLite keeps no estimate
CatalogsOf(dialect) ==
  IF dialect = "pg"
    THEN {NoCatalog,
          [tables |-> <<OrdersTable(<<>>, 3), UsersTable(<<-1>>, 2)>>],
          [tables |-> <<UsersTable(<<1234567>>, 1234567)>>],
          BigCatalog(MAX_SCHEMA_TABLES - 1), BigCatalog(MAX_SCHEMA_TABLES),
          BigCatalog(MAX_SCHEMA_TABLES + 1), BigCatalog(150)}
  ELSE IF dialect = "mysql2"
    THEN {NoCatalog,
          [tables |-> <<OrdersTable(<<>>, 3), UsersTable(<<0>>, 2)>>],
          [tables |-> <<UsersTable(<<1500>>, 1498)>>],
          BigCatalog(150)}
  ELSE IF dialect = "better-sqlite3"
    THEN {NoCatalog,
          [tables |-> <<OrdersTable(<<>>, 3), UsersTable(<<>>, 2)>>],
          [tables |-> <<MembershipsTable(<<>>, 4)>>],
          BigCatalog(150)}
  ELSE {NoCatalog}

TableArgs == {"users", "orders", "memberships", "missing"}

InitCatalog == InitWith({""})

NextCatalog ==
  \/ \E cs \in ExplainConnStrings : StartConnect(1, cs)
  \/ ConnectAfterDestroy(1)
  \/ \E ok \in BOOLEAN : ConnectLive(1, ok)
  \/ \E ok \in BOOLEAN : ConnectReadOnly(1, ok)
  \/ \E tool \in {"list_tables", "get_schema"} : StartTool(1, tool, "")
  \/ \E table \in TableArgs : StartTool(1, "describe_table", table)
  \/ Ensured(1)
  \/ \E ok \in BOOLEAN, more \in {"none", "statement", "describe"},
        catalog \in CatalogsOf(DriverOf(1)) : CatalogDone(1, ok, more, catalog)

SpecCatalog == InitCatalog /\ [][NextCatalog]_vars

(***************************************************************************)
(* SpecChart: one caller that connects and asks for charts of results of   *)
(* one to three columns, with and without a chosen x-axis and series       *)
(***************************************************************************)
ChartStatements == {"SELECT * FROM sales", "DELETE FROM sales"}

ChartOptions ==
  [title : {"Sales"}, chartType : {"pie"}, xAxis : {"", "month", "total"},
   series : {<<>>, << <<>> >>, << <<"total">> >>, << <<"total", "cost">> >>},
   stacked : BOOLEAN]

ChartColumns == {<<"month">>, <<"month", "total">>, <<"month", "total", "cost">>}

ChartRowCounts == {0, 1, 2}

InitChart == InitWith({""})

NextChart ==
  \/ \E cs \in ExplainConnStrings : StartConnect(1, cs)
  \/ ConnectAfterDestroy(1)
  \/ \E ok \in BOOLEAN : ConnectLive(1, ok)
  \/ \E ok \in BOOLEAN : ConnectReadOnly(1, ok)
  \/ \E sql \in ChartStatements, options \in ChartOptions : StartToolWith(1, "chart", sql, options)
  \/ Ensured(1)
  \/ \E ok \in BOOLEAN, n \in ChartRowCounts, columns \in ChartColumns :
       ExecDone(1, ok, DriverOf(1), n, columns, NoPlan)

SpecChart == InitChart /\ [][NextChart]_vars

(***************************************************************************)
(* Connection manager and query gateway: properties                        *)
(***************************************************************************)
\* C1: at every moment, under every interleaving of connect and disconnect,
\* at most one handle that was created and not destroyed exists, and it is
\* the handle the process holds (no handle is dropped without being destroyed).
C1_SingleHandle ==
  /\ Cardinality(LiveHandles) <= 1
  /\ \A h \in LiveHandles : knexInstance = h

\* C2: every statement that query, explain_query or chart passes to execute
\* goes to a handle on which the liveness statement and the read-only
\* statement have both completed.
C2_StatementsOnReadOnlyHandle ==
  \A s \in Slots : calls[s].pc = "exec" => calls[s].guarded

\* C3: a tool call that begins while no connection is active (none has
\* succeeded since the start, the last disconnect or the last failed connect)
\* and no auto-connect string is configured passes no statement to any
\* handle and, its statement being a read statement, returns the
\* not-connected error.
C3_NotConnected ==
  /\ \A s \in Slots : (calls[s].tool \in Tools /\ calls[s].unconnected) => ~calls[s].sent
  /\ LET c == returned.call IN
     (c.tool \in Tools /\ c.unconnected)
       => /\ ~c.sent
          /\ (c.tool \in StatementTools => c.arg \in ReadStatements)
               => returned.out \in {ErrorOut(NotConnectedMessage), ErrorOut(NoDialectMessage)}

QueryAndExplain == {"query", "explain_query"}

\* C4 as stated: a statement that is not a read statement, submitted to query
\* or explain_query, returns the validation error and the call passes no
\* statement at all to a handle, in every connection state.
C4_ValidationFirst ==
  (returned.call.tool \in QueryAndExplain /\ returned.call.arg \in OtherStatements)
    => /\ returned.out = ErrorOut(ValidationMessage)
       /\ ~returned.call.sent

\* C4 as the code has it: a statement that is not a read statement, submitted
\* to query or explain_query, is never passed to execute (the only statements
\* such a call passes are those of the connect which ensureConnection runs);
\* the call returns the validation error when ensureConnection succeeded, and
\* the error of ensureConnection otherwise.
C4_NeverExecuted ==
  /\ \A s \in Slots :
       (calls[s].tool \in QueryAndExplain /\ calls[s].arg \in OtherStatements)
         => /\ calls[s].pc # "exec"
            /\ calls[s].stmt \in {"", LivenessStatement, ReadOnlyStatement(calls[s].client)}
  /\ LET c == returned.call IN
     (c.tool \in QueryAndExplain /\ c.arg \in OtherStatements)
       => /\ c.stmt \in {"", LivenessStatement, ReadOnlyStatement(c.client)}
          /\ IF c.pc = "ensured"
               THEN returned.out = ErrorOut(ValidationMessage)
               ELSE /\ c.pc \in {"idle", "c_live", "c_ro"}
                    /\ returned.out \in {ErrorOut(NotConnectedMessage), ErrorOut(DriverMessage),
                                         ErrorOut(parseConnectionString(c.cs).message)}

\* the validation error returned after the auto-connect passed its statements
C4_Witness ==
  /\ returned.call.tool = "explain_query"
  /\ returned.call.arg = "  delete   from t"
  /\ returned.call.sent
  /\ returned.out = ErrorOut(ValidationMessage)

\* C5: with a connection active, query passes a statement to execute if and
\* only if it is a read statement (DELETE in any case and spacing is rejected,
\* WITH ... SELECT is accepted), and the text passed is the caller's text.
C5_ReadStatementsOnly ==
  /\ \A s \in Slots :
       (calls[s].tool = "query" /\ calls[s].pc = "exec")
         => /\ calls[s].arg \in ReadStatements
            /\ calls[s].stmt = calls[s].arg
  /\ (returned.call.tool = "query" /\ returned.call.pc = "ensured")
       => /\ returned.call.arg \in OtherStatements
          /\ returned.out = ErrorOut(ValidationMessage)

C5_Witness ==
  /\ calls[1].tool = "query"
  /\ calls[1].pc = "exec"
  /\ calls[1].stmt = "with x as (select 1) select * from x"

\* C6: for a backend result of n rows the query tool returns the first
\* min(n, 1000) rows in backend order, with a notice exactly when n > 1000,
\* and the notice states the cap 1000 and the total n.
C6_RowCap ==
  LET c == returned.call
      n == c.got
      k == IF n < 1000 THEN n ELSE 1000
  IN (c.tool = "query" /\ c.pc = "exec" /\ ~returned.out.isError)
       => /\ Len(returned.out.rows) = k
          /\ \A i \in 1..k : returned.out.rows[i] = BackendRows(n)[i]
          /\ (returned.out.notice # <<>>) <=> (n > 1000)
          /\ n > 1000 => returned.out.notice = <<1000, n>>

C6_Witness ==
  /\ returned.call.tool = "query"
  /\ returned.call.got = 1001
  /\ Len(returned.out.rows) = 1000
  /\ returned.out.notice = <<1000, 1001>>

\* text shows the password of cred, or shows its connection string up to the
\* password without the marker in the password's place
Leaks(text, cred) ==
  \/ Contains(text, cred.password)
  \/ /\ Contains(text, cred.before)
     /\ ~Contains(text, cred.before \o "***" \o cred.after)

\* C7: for every connection string with a password segment, no text the
\* connect tool returns and no log line shows the password: the segment is
\* replaced by the marker.
C7_PasswordRedacted ==
  \A cred \in Credentials :
    /\ (returned.call.tool = "connect" /\ returned.call.cs = CredentialString(cred))
         => ~Leaks(returned.out.text, cred)
    /\ envCS = CredentialString(cred) => ~Leaks(lastLog, cred)

(***************************************************************************)
(* Explain-plan normalizer: properties                                     *)
(***************************************************************************)
\* an explain_query call on a connection of this dialect returned a result
Explained(dialect) ==
  /\ returned.call.tool = "explain_query"
  /\ returned.call.pc = "exec"
  /\ returned.call.client = dialect
  /\ ~returned.out.isError

\* C8: for Postgres and every plan tree, estimatedRows is the row estimate of
\* the top-level plan node, also when a node below it carries a larger one.
C8_TopLevelEstimate ==
  (Explained("pg") /\ returned.call.plan.tree # <<>>)
    => returned.out.explain.estimatedRows = returned.call.plan.tree[1].planRows

\* C9: for all three dialects and every plan, indexesUsed holds no name
\* twice, however many nodes or lines of the plan name the same index.
C9_NoDuplicateIndexes ==
  LET used == returned.out.explain.indexesUsed IN
  \A dialect \in Clients :
    Explained(dialect) => \A i, j \in 1..Len(used) : used[i] = used[j] => i = j

\* a SQLite plan in which a SEARCH line and a SCAN line name the same index
C9_Witness ==
  /\ Explained("better-sqlite3")
  /\ returned.call.plan.details =
       <<"SEARCH t USING INDEX idx_a (a=?)", "SCAN v USING INDEX idx_a SEARCH w USING INDEX idx_a (a=?)">>
  /\ returned.out.explain.indexesUsed = <<"idx_a">>

\* the tables of the plan rows that begin with SCAN and name no index, in
\* the order of the rows
RECURSIVE ScannedTables(_)
ScannedTables(details) ==
  IF details = <<>> THEN <<>>
  ELSE LET line == PlanLine(Head(details)) IN
       (IF line.table # "" /\ line.index = "" THEN <<line.table>> ELSE <<>>)
         \o ScannedTables(Tail(details))

\* C10: for SQLite, every plan line that begins with SCAN and names an index
\* puts that index in indexesUsed and adds neither its table to
\* sequentialScans nor a warning; every plan line that begins with SCAN and
\* names no index adds its table to sequentialScans and one warning that
\* names the table.  (The warnings of the result are these, followed by the
\* general warning when no index is used.)
C10_SqliteScanLines ==
  LET details == returned.call.plan.details
      result == returned.out.explain
      scanned == ScannedTables(details)
  IN Explained("better-sqlite3")
       => /\ \A i \in 1..Len(details) :
               LET line == PlanLine(details[i]) IN
               (line.table # "" /\ line.index # "") => Includes(result.indexesUsed, line.index)
          /\ result.sequentialScans = scanned
          /\ Len(result.warnings) \in {Len(scanned), Len(scanned) + 1}
          /\ \A i \in 1..Len(scanned) :
               /\ StartsWith(result.warnings[i], "Sequential scan on '" \o scanned[i] \o "'")
          /\ Len(result.warnings) > Len(scanned)
               => result.warnings[Len(result.warnings)] = NoIndexWarning

C10_Witness ==
  /\ Explained("better-sqlite3")
  /\ returned.call.plan.details = <<"SCAN t USING COVERING INDEX idx_a", "SCAN u">>
  /\ returned.out.explain.indexesUsed = <<"idx_a">>
  /\ returned.out.explain.sequentialScans = <<"u">>
  /\ Len(returned.out.explain.warnings) = 1

\* the places of the general warning among the warnings
GeneralWarnings(warnings) == {i \in 1..Len(warnings) : warnings[i] = NoIndexWarning}

\* C11: in every dialect the result of explainQuery holds the general
\* no-indexes-used warning exactly when sequentialScans is non-empty and
\* indexesUsed is empty; it holds it at most once, as the last warning, after
\* the warnings of the scans.
C11_GeneralWarning ==
  LET result == returned.out.explain
      general == GeneralWarnings(result.warnings)
  IN \A dialect \in Clients :
       Explained(dialect)
         => /\ (general # {}) <=> (Len(result.sequentialScans) > 0 /\ Len(result.indexesUsed) = 0)
            /\ Cardinality(general) <= 1
            /\ general \subseteq {Len(result.warnings)}
            /\ general # {} => Len(result.warnings) = Len(result.sequentialScans) + 1

\* a MySQL plan of two full scans and no index: two warnings, then the general one
C11_Witness ==
  /\ Explained("mysql2")
  /\ returned.out.explain.sequentialScans = <<"t", "u">>
  /\ returned.out.explain.indexesUsed = <<>>
  /\ Len(returned.out.explain.warnings) = 3
  /\ returned.out.explain.warnings[3] = NoIndexWarning

\* C12: when the backend answers an EXPLAIN statement with a malformed plan
\* (MySQL: a text that is not JSON; SQLite: a plan row without a detail
\* text), explainQuery does not fail: explain_query returns a result, which
\* holds what the pass extracted before the malformed part.
C12_MalformedPlanTolerated ==
  LET c == returned.call IN
  (c.tool = "explain_query" /\ c.pc = "exec" /\ c.plan # NoPlan)
    => /\ ~returned.out.isError
       /\ c.plan.details = <<"SCAN t", Undefined>>
            => returned.out.explain.sequentialScans = <<"t">>

\* the operations the server exposes
ExposedTools == {"connect"} \cup Tools

\* a call that returned from a place its handler reaches only by a failure:
\* without a connection (a tool back from ensureConnection at once), from
\* connect before or at the liveness statement, from an auto-connect at the
\* read-only statement, or at the validation with a statement that is not a
\* read statement
ReturnedFromFailure(c) ==
  \/ c.tool \in Tools /\ c.pc \in {"idle", "c_live", "c_ro"}
  \/ c.tool = "connect" /\ c.pc \in {"idle", "c_destroy", "c_live"}
  \/ c.tool \in StatementTools /\ c.pc = "ensured" /\ c.arg \in OtherStatements

EstimateOf(dialect, table) ==
  IF dialect = "better-sqlite3" THEN table.rows
  ELSE IF table.estimate = <<>> THEN 0
  ELSE IF table.estimate[1] < 0 THEN 0
  ELSE table.estimate[1]

\* get_schema returned the schema of the catalog of its call
SchemaReturned ==
  /\ returned.call.tool = "get_schema"
  /\ returned.call.pc = "cat"
  /\ returned.call.listed
  /\ ~returned.out.isError

\* C14: for a database of n >= 1 tables get_schema emits min(n, 100) table
\* sections, those of the first min(n, 100) tables in the order of the
\* listing, each followed by the estimated row count of its table, under a
\* header that states the number of tables included.
C14_SchemaSections ==
  LET c == returned.call
      sections == returned.out.sections
      tables == c.catalog.tables
      n == Len(tables)
      included == IF n < 100 THEN n ELSE 100
  IN (SchemaReturned /\ n >= 1)
       => /\ Len(sections) = 1 + 3 * included
          /\ StartsWith(sections[1], "Database Schema (" \o ToString(included) \o " tables)\n")
          /\ \A i \in 1..included :
               /\ StartsWith(sections[3 * i - 1], "Table: " \o tables[i].name \o " (")
               /\ sections[3 * i]
                    = "  Estimated rows: " \o toLocaleString(EstimateOf(c.client, tables[i]))
               /\ sections[3 * i + 1] = ""
          /\ c.described = included
          /\ returned.out.text = JoinLines(sections)

\* the schema of a database of 150 tables: 100 sections, a header of 100
C14_Witness ==
  /\ SchemaReturned
  /\ Len(returned.call.catalog.tables) = 150
  /\ Len(returned.out.sections) = 301
  /\ StartsWith(returned.out.text, "Database Schema (100 tables)")
  /\ StartsWith(returned.out.sections[299], "Table: t100 (")
  /\ returned.out.sections[300] = "  Estimated rows: 1,000"

\* list_tables returned the listing of the catalog of its call
ListingReturned ==
  /\ returned.call.tool = "list_tables"
  /\ returned.call.pc = "cat"
  /\ returned.call.listed
  /\ ~returned.out.isError

\* C15: the estimate list_tables reports for a table is a non-negative
\* integer: 0 where the catalog of Postgres has a negative estimate or none
\* and where the catalog of MySQL has NULL, the estimate of the catalog
\* otherwise.
C15_EstimateNotNegative ==
  LET c == returned.call
      tables == c.catalog.tables
      listed == returned.out.tables
  IN ListingReturned
       => /\ Len(listed) = Len(tables)
          /\ \A i \in 1..Len(tables) :
               /\ listed[i].name = tables[i].name
               /\ listed[i].estimatedRows \in Nat
               /\ listed[i].estimatedRows = EstimateOf(c.client, tables[i])
               /\ (c.client \in {"pg", "mysql2"} /\ tables[i].estimate = <<>>)
                    => listed[i].estimatedRows = 0
               /\ (c.client = "pg" /\ tables[i].estimate # <<>> /\ tables[i].estimate[1] < 0)
                    => listed[i].estimatedRows = 0
          /\ Len(tables) > 0
               => EndsWith(returned.out.text,
                           "  " \o toLocaleString(EstimateOf(c.client, tables[Len(tables)])))

\* the listing of a Postgres database with a table that has no estimate and
\* a table never analyzed
C15_Witness ==
  /\ ListingReturned
  /\ returned.call.client = "pg"
  /\ Len(returned.call.catalog.tables) = 2
  /\ returned.call.catalog.tables[1].estimate = <<>>
  /\ returned.call.catalog.tables[2].estimate = <<-1>>
  /\ returned.out.tables = <<[name |-> "orders", estimatedRows |-> 0],
                             [name |-> "users", estimatedRows |-> 0]>>
  /\ EndsWith(returned.out.text, "users   0")

\* C16: on a database without tables list_tables returns the message that
\* no tables were found, not an empty listing and not a header alone;
\* get_schema returns the same message and has described no table.
C16_NoTablesMessage ==
  LET c == returned.call
      out == returned.out
  IN ((ListingReturned \/ SchemaReturned) /\ c.catalog.tables = <<>>)
       => /\ out.text = "No tables found in the database."
          /\ ~Contains(out.text, "Est. Rows")
          /\ ~Contains(out.text, "Database Schema")
          /\ out.tables = <<>>
          /\ out.sections = <<>>
          /\ c.described = 0

\* list_tables returned from a MySQL database without tables
C16_Witness ==
  /\ ListingReturned
  /\ returned.call.client = "mysql2"
  /\ returned.call.catalog.tables = <<>>
  /\ returned.out.text = NoTablesMessage

\* describe_table returned the description of a table of the catalog of its
\* call
DescriptionReturned ==
  /\ returned.call.tool = "describe_table"
  /\ returned.call.pc = "cat"
  /\ returned.call.listed
  /\ ~returned.out.isError

\* C17: for the SQLite table users (id INTEGER PRIMARY KEY, name TEXT NOT
\* NULL), whose table_info row for id has pk = 1 and notnull = 0,
\* describe_table reports the column id as a primary key that is not
\* nullable.
C17_PrimaryKeyNotNullable ==
  LET c == returned.call
      found == TableNamed(c.catalog.tables, "users")
      desc == TableDescription(c.client, "users", c.catalog)
  IN (/\ DescriptionReturned
      /\ c.client = "better-sqlite3"
      /\ c.arg = "users"
      /\ found # <<>>
      /\ TableInfo(found[1])[1] = [name |-> "id", type |-> "INTEGER", notnull |-> 0,
                                   dflt_value |-> "", pk |-> 1])
       => /\ desc.columns[1].name = "id"
          /\ desc.columns[1].isPrimaryKey
          /\ ~desc.columns[1].nullable
          /\ Contains(returned.out.text, "  id    INTEGER  [PK, NOT NULL]")

\* chart returned the configuration for a result that has rows
ChartReturned ==
  /\ returned.call.tool = "chart"
  /\ returned.call.pc = "exec"
  /\ returned.call.got > 0
  /\ ~returned.out.isError

\* C18: for a result that has rows the chart configuration has the first
\* column as xAxisKey unless an x-axis was chosen, the remaining columns as
\* series unless series were chosen, the first series column as dataKey,
\* which is a defined string, and multiSeries exactly when there is more
\* than one series column; also for a result of one column and for a chosen
\* empty series list.
C18_ChartConfig ==
  LET c == returned.call
      config == returned.out.config
      xAxis == IF c.options.xAxis # "" THEN c.options.xAxis ELSE c.columns[1]
      Remaining(column) == column # xAxis
      series == IF c.options.series # <<>> THEN c.options.series[1]
                ELSE SelectSeq(c.columns, Remaining)
  IN ChartReturned
       => /\ config.xAxisKey = xAxis
          /\ config.dataKey # Undefined
          /\ series # <<>> => config.dataKey = series[1]
          /\ (config.multiSeries # <<>>) <=> (Len(series) > 1)
          /\ config.multiSeries # <<>> => config.multiSeries[1] = series
          /\ Contains(returned.out.text, "\"dataKey\":\"")

\* the step is the return of a disconnect call
DisconnectReturns == returned'.call.tool = "disconnect"

\* a disconnect called when no connection is active
DisconnectOfNothing ==
  (DisconnectReturns /\ returned'.call.pc = "idle")
    => /\ knexInstance = 0
       /\ UNCHANGED <<knexInstance, currentDialect, handles, autoConnectAttempted>>
       /\ ~returned'.out.isError

\* a disconnect called when a connection is active, up to its await
DisconnectDestroys ==
  (calls[1].pc = "idle" /\ calls'[1].pc = "d_destroy")
    => /\ knexInstance # 0
       /\ calls'[1].h = knexInstance
       /\ handles[knexInstance].open
       /\ handles' = [handles EXCEPT ![knexInstance] = Closed]

\* a disconnect called when a connection is active, after its await
DisconnectClears ==
  (DisconnectReturns /\ returned'.call.pc = "d_destroy")
    => /\ UNCHANGED handles
       /\ LiveHandles = {}
       /\ knexInstance' = 0
       /\ currentDialect' = "null"
       /\ ~returned'.out.isError

\* a disconnect that follows a disconnect
DisconnectAgain ==
  (returned.call.tool = "disconnect" /\ DisconnectReturns)
    => /\ returned'.call.pc = "idle"
       /\ knexInstance = 0
       /\ currentDialect = "null"
       /\ LiveHandles = {}
       /\ UNCHANGED <<knexInstance, currentDialect, handles>>

\* C19: a disconnect called when no connection is active changes nothing and
\* returns without an error; called when a connection is active it destroys
\* the handle of that connection, once, and leaves no handle and no dialect
\* tag; a disconnect that follows a disconnect changes nothing.
C19_DisconnectIdempotent ==
  [][DisconnectOfNothing /\ DisconnectDestroys /\ DisconnectClears /\ DisconnectAgain]_vars

\* a disconnect has destroyed the handle of a read-only SQLite connection
C19_Witness ==
  /\ returned.call.tool = "disconnect"
  /\ returned.call.pc = "d_destroy"
  /\ returned.call.h # 0
  /\ handles[returned.call.h] = Closed
  /\ LiveHandles = {}
  /\ knexInstance = 0
  /\ currentDialect = "null"
  /\ ~returned.out.isError

\* the dialect of the form a trimmed connection string has, of the forms
\* postgres:// or postgresql://, mysql://, sqlite:, and a bare path ending in
\* .db, .sqlite or .sqlite3; "null" for none of them
FormOf(trimmed) ==
  IF StartsWith(trimmed, "postgres://") \/ StartsWith(trimmed, "postgresql://") THEN "pg"
  ELSE IF StartsWith(trimmed, "mysql://") THEN "mysql2"
  ELSE IF StartsWith(trimmed, "sqlite:") THEN "better-sqlite3"
  ELSE IF EndsWith(trimmed, ".db") \/ EndsWith(trimmed, ".sqlite") \/ EndsWith(trimmed, ".sqlite3")
    THEN "better-sqlite3"
  ELSE "null"

\* the same with the form :memory:, which selects SQLite
FormOrMemoryOf(trimmed) == IF trimmed = ":memory:" THEN "better-sqlite3" ELSE FormOf(trimmed)

\* a URI of Postgres or MySQL that is not a URL: its host has a space
NotAUrl(trimmed) ==
  /\ FormOf(trimmed) \in {"pg", "mysql2"}
  /\ \E i \in 1..Len(trimmed) :
       /\ Char(trimmed, i) = " "
       /\ i > IndexFrom(trimmed, "://", 1) + 2
       /\ IndexFrom(trimmed, "/", IndexFrom(trimmed, "://", 1) + 3) \in {0} \cup ((i + 1)..Len(trimmed))

\* the connect tool returned
ConnectReturned == returned.call.tool = "connect"

\* a connect that failed before it made a handle or sent a statement
FailedAtParse ==
  /\ returned.out.isError
  /\ returned.call.h = 0
  /\ ~returned.call.sent
  /\ returned.call.client = "null"
  /\ knexInstance = 0
  /\ LiveHandles = {}

ExplainedAny == \E dialect \in Clients : Explained(dialect)

\* C21: the summary of an ExplainResult is the no-plan-details message
\* exactly when estimatedRows is absent and indexesUsed and sequentialScans
\* are empty; otherwise it names, in the order row estimate, index count,
\* scan count, exactly those that are available, with the counts equal to
\* the lengths of indexesUsed and sequentialScans.
C21_Summary ==
  LET result == returned.out.explain
      summary == result.summary
      estimate == IndexFrom(summary, " rows estimated", 1)
      indexes == IndexFrom(summary, "uses " \o ToString(Len(result.indexesUsed)) \o " index(es)", 1)
      scans == IndexFrom(summary, ToString(Len(result.sequentialScans)) \o " sequential scan(s)", 1)
      available == (IF result.estimatedRows # Null THEN 1 ELSE 0)
                     + (IF Len(result.indexesUsed) > 0 THEN 1 ELSE 0)
                     + (IF Len(result.sequentialScans) > 0 THEN 1 ELSE 0)
      Commas == {i \in 1..Len(summary) : SubSeq(summary, i, i) = ","}
  IN ExplainedAny
       => /\ (summary = "No plan details available") <=> (available = 0)
          /\ (result.estimatedRows # Null) <=> (estimate # 0)
          /\ estimate # 0 => StartsWith(summary, "~")
          /\ (Len(result.indexesUsed) > 0) <=> Contains(summary, "index(es)")
          /\ Len(result.indexesUsed) > 0 => indexes # 0
          /\ (Len(result.sequentialScans) > 0) <=> Contains(summary, "sequential scan(s)")
          /\ Len(result.sequentialScans) > 0
               => /\ scans # 0
                  /\ EndsWith(summary, " sequential scan(s)")
          /\ (estimate # 0 /\ indexes # 0) => estimate < indexes
          /\ (indexes # 0 /\ scans # 0) => indexes < scans
          /\ (estimate # 0 /\ scans # 0) => estimate < scans
          /\ available > 0 => Cardinality(Commas) = available - 1

\* a summary of all three parts
C21_Witness ==
  /\ ExplainedAny
  /\ returned.out.explain.estimatedRows # Null
  /\ Len(returned.out.explain.indexesUsed) = 1
  /\ Len(returned.out.explain.sequentialScans) = 1
  /\ EndsWith(returned.out.explain.summary, " rows estimated, uses 1 index(es), 1 sequential scan(s)")

\* the full-scan nodes of a Postgres plan, the node before its child plans
\* and the child plans from first to last
RECURSIVE PgFullScans(_)
PgFullScans(node) ==
  LET below == [i \in 1..Len(node.plans) |-> PgFullScans(node.plans[i])]
      Flat[i \in 0..Len(below)] == IF i = 0 THEN <<>> ELSE Flat[i - 1] \o below[i]
  IN (IF node.nodeType = "Seq Scan" /\ node.relationName # "" THEN <<node.relationName>>
      ELSE <<>>)
       \o Flat[Len(below)]

\* the full-scan objects of a MySQL plan document, an object before its
\* values and the values from first to last
RECURSIVE MysqlFullScans(_)
MysqlFullScans(value) ==
  LET below == [i \in 1..Len(value.vals) |-> MysqlFullScans(value.vals[i])]
      Flat[i \in 0..Len(below)] == IF i = 0 THEN <<>> ELSE Flat[i - 1] \o below[i]
      own == /\ value.type = "object"
             /\ \E i \in 1..Len(value.keys) :
                  value.keys[i] = "access_type" /\ value.vals[i] = JString("ALL")
             /\ \E i \in 1..Len(value.keys) :
                  value.keys[i] = "table_name" /\ value.vals[i].type = "string"
                    /\ value.vals[i].str # ""
  IN IF value.type \notin {"object", "array"} THEN <<>>
     ELSE (IF own THEN <<Field(value, "table_name").str>> ELSE <<>>) \o Flat[Len(below)]

\* C22: for Postgres and MySQL sequentialScans holds one entry for each
\* full-scan node of the plan, at every depth, in depth-first pre-order:
\* no node is skipped and none is counted twice.
C22_EveryNodeWalked ==
  LET plan == returned.call.plan
      scans == returned.out.explain.sequentialScans
  IN /\ (Explained("pg") /\ plan.tree # <<>>) => scans = PgFullScans(plan.tree[1])
     /\ Explained("mysql2") => scans = MysqlFullScans(plan.raw)

\* two scans two levels below the top node of a Postgres plan
C22_Witness ==
  /\ Explained("pg")
  /\ returned.call.plan.tree # <<>>
  /\ returned.call.plan.tree[1].plans # <<>>
  /\ Len(returned.call.plan.tree[1].plans[1].plans) = 2
  /\ returned.out.explain.sequentialScans = <<"t", "u">>

\* C23: for each dialect a describe_table of a table for which the catalog
\* reports no foreign keys yields a description whose foreign-key sequence
\* is the empty sequence, and the text has no foreign-key section.
C23_NoForeignKeys ==
  LET c == returned.call
      found == TableNamed(c.catalog.tables, c.arg)
  IN (/\ DescriptionReturned
      /\ c.client \in Clients
      /\ found = <<>> \/ found[1].foreignKeys = <<>>)
       => /\ TableDescription(c.client, c.arg, c.catalog).foreignKeys = <<>>
          /\ ~Contains(returned.out.text, "Foreign Keys:")
          /\ ~Contains(returned.out.text, "->")

\* the description of the MySQL table users, which has columns and an index
\* and no foreign key
C23_Witness ==
  /\ DescriptionReturned
  /\ returned.call.client = "mysql2"
  /\ returned.call.arg = "users"
  /\ TableNamed(returned.call.catalog.tables, "users") # <<>>
  /\ Contains(returned.out.text, "Columns:")
  /\ Contains(returned.out.text, "Indexes:")
  /\ ~Contains(returned.out.text, "Foreign Keys:")

\* the positions of a call inside connect or disconnect
ConnectingPositions == {"c_destroy", "c_live", "c_ro", "d_destroy"}

\* C24: whenever no connect and no disconnect is in progress, a handle is
\* held exactly when a dialect tag is set; also after a connect that failed
\* at its liveness statement or at its read-only statement.
C24_HandleIffDialect ==
  (\A s \in Slots : calls[s].pc \notin ConnectingPositions)
    => ((knexInstance # 0) <=> (currentDialect # "null"))

\* getDialect returns a dialect and a live handle is held: the handle was
\* opened for that dialect
C25_DialectOfHandle ==
  (currentDialect # "null" /\ knexInstance # 0 /\ handles[knexInstance].open)
    => handles[knexInstance].client = currentDialect

\* a connect call whose liveness statement completed, while a connect call
\* of another dialect is in progress, passes its read-only statement to
\* knexInstance: that is the handle the call opened itself
C25_OwnHandle ==
  \A s \in Slots :
    (/\ calls[s].pc = "c_live"
     /\ calls[s].tool = "connect"
     /\ \E t \in Slots \ {s} : /\ calls[t].tool = "connect"
                               /\ calls[t].client \notin {"null", calls[s].client}
     /\ calls'[s] # calls[s]
     /\ returned'.out # ErrorOut(DriverMessage))
      => knexInstance = calls[s].h

\* C25: under any interleaving of two connect calls of different dialects,
\* a dialect that getDialect returns is the dialect the live handle was
\* opened for, and each connect sends its read-only statement only to the
\* handle it opened itself, never to the other call's and never to a
\* cleared one.
C25_ConnectsIsolated == [][C25_OwnHandle /\ C25_DialectOfHandle']_vars

\* C26: while a connect call, explicit or automatic, is in flight (it has
\* created the handle and its read-only statement has not completed), no
\* statement of a concurrent query, explain_query or chart call is passed
\* to that handle: the call fails as not connected, or waits.
C26_NoStatementDuringConnect ==
  \A s \in Slots, t \in Slots :
    ~ (/\ calls[s].pc = "exec"
       /\ calls[s].tool \in StatementTools
       /\ calls[s].h # 0
       /\ ~calls[s].guarded
       /\ calls[t].pc \in {"c_live", "c_ro"}
       /\ calls[t].h = calls[s].h)

\* database.ts getKnex: the handle held, or the error thrown
getKnex ==
  IF knexInstance = 0
    THEN [ok |-> FALSE, handle |-> 0, message |-> NotConnectedMessage]
    ELSE [ok |-> TRUE, handle |-> knexInstance, message |-> ""]

\* database.ts getDialect: the dialect tag, or the error thrown
getDialect ==
  IF currentDialect = "null"
    THEN [ok |-> FALSE, dialect |-> "null", message |-> NoDialectMessage]
    ELSE [ok |-> TRUE, dialect |-> currentDialect, message |-> ""]

\* a connect call returned that began with a handle held, awaited its
\* destroy, and then failed because its string was not recognized
UnrecognizedAfterDestroy ==
  /\ ConnectReturned
  /\ returned.call.pc = "c_destroy"
  /\ StartsWith(returned.out.text, "Error: " \o UnrecognizedPrefix)

\* C27: connect destroys the connection held before it examines the new
\* string: after a connect that fails on an unrecognized string while a
\* connection was active, the earlier handle is destroyed, no handle and no
\* dialect tag remain, and getKnex and getDialect both fail as not connected.
C27_DestroyedBeforeParse ==
  UnrecognizedAfterDestroy
    => /\ LiveHandles = {}
       /\ knexInstance = 0
       /\ currentDialect = "null"
       /\ ~getKnex.ok /\ getKnex.message = NotConnectedMessage
       /\ ~getDialect.ok /\ getDialect.message = NoDialectMessage

\* a connection was active when the call began: a connect to a Postgres
\* database had succeeded, and the connect of an ftp:// string then failed
C27_Witness ==
  /\ UnrecognizedAfterDestroy
  /\ returned.call.cs = "ftp://u:s3cr3t@h/d"
  /\ envCS = ""
  /\ ~returned.call.unconnected
  /\ ~getKnex.ok
  /\ ~getDialect.ok

\* C28: for every dialect and plan, the result of explainQuery has one
\* warning for each entry of sequentialScans, plus one exactly when
\* sequentialScans is non-empty and indexesUsed is empty; the i-th warning
\* names the i-th entry of sequentialScans, and a result without
\* sequential scans has no warnings.
C28_WarningsFollowScans ==
  LET result == returned.out.explain
      scans == result.sequentialScans
      general == IF scans # <<>> /\ result.indexesUsed = <<>> THEN 1 ELSE 0
  IN ExplainedAny
       => /\ Len(result.warnings) = Len(scans) + general
          /\ \A i \in 1..Len(scans) :
               /\ i <= Len(result.warnings)
               /\ StartsWith(result.warnings[i], "Sequential scan on '" \o scans[i] \o "'")
          /\ scans = <<>> => result.warnings = <<>>

\* a SQLite plan of two scans and no index: three warnings, the first of
\* table t, the second of table u, then the general one
C28_Witness ==
  /\ Explained("better-sqlite3")
  /\ returned.out.explain.sequentialScans = <<"t", "u">>
  /\ returned.out.explain.indexesUsed = <<>>
  /\ Len(returned.out.explain.warnings) = 3
  /\ StartsWith(returned.out.explain.warnings[1], "Sequential scan on 't'")
  /\ StartsWith(returned.out.explain.warnings[2], "Sequential scan on 'u'")

\* a step in which a tool call begins
ToolStarted ==
  /\ started' = started + 1
  /\ \/ returned'.call.tool \in Tools
     \/ \E s \in Slots : calls[s].pc = "idle" /\ calls'[s].tool \in Tools

\* a step in which a tool call begins the automatic connection: connect is
\* called with the connection string of the environment
AutoConnectStarted ==
  /\ ToolStarted
  /\ \/ returned'.call.cs # ""
     \/ \E s \in Slots : calls[s].pc = "idle" /\ calls'[s].pc = "c_live"

\* the automatic connection begins only while it was not attempted before
AutoConnectOnce ==
  /\ autoConnectAttempted => autoConnectAttempted'
  /\ AutoConnectStarted
       => (~autoConnectAttempted /\ autoConnectAttempted' /\ knexInstance = 0 /\ envCS # "")

\* the first tool call that finds no handle attempts it
AutoConnectOnFirstCall ==
  (ToolStarted /\ ~autoConnectAttempted /\ knexInstance = 0 /\ envCS # "")
    => AutoConnectStarted

\* after the attempt a tool call that finds no handle fails as not
\* connected, and makes no handle
NoAttemptAfterwards ==
  (ToolStarted /\ autoConnectAttempted /\ knexInstance = 0)
    => /\ returned'.out = ErrorOut(NotConnectedMessage)
       /\ returned'.call.cs = ""
       /\ UNCHANGED <<knexInstance, handles, autoConnectAttempted>>

\* C29: the automatic connection from DB_CONNECTION_STRING is attempted at
\* most once in the lifetime of the process, on the first tool call that
\* finds no handle; after the attempt, whether it succeeded or failed, every
\* later tool call that finds no handle fails as not connected and does not
\* attempt it again.
C29_AutoConnectAtMostOnce ==
  [][AutoConnectOnce /\ AutoConnectOnFirstCall /\ NoAttemptAfterwards]_vars

\* after an attempt a tool call found no handle and failed as not connected
C29_Witness ==
  /\ autoConnectAttempted
  /\ envCS # ""
  /\ knexInstance = 0
  /\ returned.call.tool \in Tools
  /\ returned.call.cs = ""
  /\ returned.out = ErrorOut(NotConnectedMessage)

\* C30: for SQLite, describeTable reports isPrimaryKey true for every
\* column that belongs to the primary key of the table and false for every
\* other column, also for a composite primary key, whose columns table_info
\* numbers 1, 2, 3, ... by their position in the key.
C30_PrimaryKeyColumns ==
  LET c == returned.call
      found == TableNamed(c.catalog.tables, c.arg)
      desc == TableDescription(c.client, c.arg, c.catalog)
  IN (DescriptionReturned /\ c.client = "better-sqlite3" /\ found # <<>>)
       => /\ Len(desc.columns) = Len(found[1].columns)
          /\ \A i \in 1..Len(found[1].columns) :
               desc.columns[i].isPrimaryKey <=> (found[1].columns[i].pk > 0)
====
